---- MODULE Spec2Model ----
(***************************************************************************)
(* A model of the sigqc PCA core (sigqc/sigqc_pca.py) and of the reference *)
(* snapshot workflow (sigqc/sigqc_implementpca.py).                        *)
(*                                                                         *)
(* Arithmetic.  The code computes with IEEE doubles.  The model computes   *)
(* exactly, in the field generated by the rationals and the square roots   *)
(* the code takes (np.std), and keeps the three non-finite doubles (nan,   *)
(* +inf, -inf) that numpy's division produces instead of raising.  A       *)
(* number is a set of terms <<rad, num, den>> meaning (num/den)*sqrt(rad), *)
(* rad square-free and distinct across the terms, num # 0, den > 0,        *)
(* gcd(num, den) = 1; the empty set is 0.  Two numbers are equal exactly   *)
(* when the sets are equal.                                                *)
(***************************************************************************)
EXTENDS Integers, Sequences, FiniteSets, TLC

\* ------------------------------------------------------------------ bounds
\* Dataset cells are drawn from 0..MaxVal.
MaxVal == 1
\* A dataset has at most MaxCells cells (rows * columns).
MaxCells == 4
\* sortEigen is called directly with at most MaxEvals eigenvalues.
MaxEvals == 3
\* Eigendecomposition is modelled for matrices of at most MaxEigDim columns.
MaxEigDim == 2

\* ------------------------------------------------------------ evaluation
\* F(x) and F(x, y) with the arguments evaluated once, before F is entered.
Force1(F(_), x) == CHOOSE r \in {F(v) : v \in {x}} : TRUE
Force2(F(_, _), x, y) == CHOOSE r \in {F(t[1], t[2]) : t \in {<<x, y>>}} : TRUE
Force3(F(_, _, _), x, y, z) ==
    CHOOSE r \in {F(t[1], t[2], t[3]) : t \in {<<x, y, z>>}} : TRUE

\* ------------------------------------------------------------- rationals
Abs(i) == IF i < 0 THEN -i ELSE i

RECURSIVE Gcd(_, _)
Gcd(a, b) == IF b = 0 THEN a ELSE Gcd(b, a % b)

\* The rational n/d in lowest terms, d # 0.
Rat(n, d) ==
    Force2(LAMBDA n0, d0 :
        LET g == Gcd(Abs(n0), Abs(d0))
            s == IF d0 < 0 THEN -1 ELSE 1
        IN  <<(s * n0) \div g, (s * d0) \div g>>,
           n, d)

RAdd(p, q) == Rat(p[1] * q[2] + q[1] * p[2], p[2] * q[2])
RLess(p, q) == p[1] * q[2] < q[1] * p[2]

\* --------------------------------------------------------------- numbers
NaN == {<<0, 0, 0>>}
PInf == {<<0, 1, 0>>}
NInf == {<<0, -1, 0>>}
Zero == {}

IsFinite(x) == \A t \in x : t[1] # 0

\* The number n/d.
RatToNumber(r) == IF r[1] = 0 THEN {} ELSE {<<1, r[1], r[2]>>}
Q(n, d) == Force1(RatToNumber, Rat(n, d))
N(i) == IF i = 0 THEN {} ELSE {<<1, i, 1>>}
One == N(1)

IsRational(x) == \A t \in x : t[1] = 1

\* The coefficient of sqrt(s) in the finite number x.
Coef(x, s) ==
    IF \E t \in x : t[1] = s
    THEN LET t == CHOOSE u \in x : u[1] = s IN <<t[2], t[3]>>
    ELSE <<0, 1>>

Neg(x) == {<<t[1], -t[2], t[3]>> : t \in x}

\* The square of the term t, a rational.
TermSquare(t) == Rat(t[2] * t[2] * t[1], t[3] * t[3])

\* The larger in magnitude of two terms.
BiggerTerm(t, u) == IF RLess(TermSquare(t), TermSquare(u)) THEN u ELSE t

\* The sign of a finite number of at most two terms, or of an infinity.
Sign(x) ==
    Force1(LAMBDA x0 :
        IF x0 = {} THEN 0
        ELSE IF Cardinality(x0) = 1
        THEN (IF \E t \in x0 : t[2] > 0 THEN 1 ELSE -1)
        ELSE IF Cardinality(x0) = 2
        THEN (IF \E t, u \in x0 : t # u /\ BiggerTerm(t, u) = t /\ t[2] > 0
              THEN 1 ELSE -1)
        ELSE CHOOSE i \in {} : TRUE,
           x)

Add(x, y) ==
    Force2(LAMBDA x0, y0 :
        IF x0 = NaN \/ y0 = NaN THEN NaN
        ELSE IF ~IsFinite(x0) THEN (IF ~IsFinite(y0) /\ y0 # x0 THEN NaN ELSE x0)
        ELSE IF ~IsFinite(y0) THEN y0
        ELSE IF x0 = {} THEN y0
        ELSE IF y0 = {} THEN x0
        ELSE {<<q[1], q[2][1], q[2][2]>> :
                q \in {p \in {<<s, RAdd(Coef(x0, s), Coef(y0, s))>> :
                                s \in {t[1] : t \in x0 \cup y0}} : p[2][1] # 0}},
           x, y)

Sub(x, y) == Add(x, Neg(y))

\* The product of two terms: sqrt(s)*sqrt(t) = g*sqrt((s/g)*(t/g)), g = gcd(s,t).
TermMulV(t, u, g) ==
    {<<(t[1] \div g) * (u[1] \div g), c[1], c[2]>> :
        c \in {Rat(t[2] * u[2] * g, t[3] * u[3])}}
TermMul(t, u) == TermMulV(t, u, Gcd(t[1], u[1]))

RECURSIVE SumTerms(_)
SumTerms(pairs) ==
    IF pairs = {} THEN {}
    ELSE LET p == CHOOSE q \in pairs : TRUE
         IN  Add(TermMul(p[1], p[2]), SumTerms(pairs \ {p}))

Mul(x, y) ==
    Force2(LAMBDA x0, y0 :
        IF x0 = NaN \/ y0 = NaN THEN NaN
        ELSE IF ~IsFinite(x0) \/ ~IsFinite(y0)
        THEN (IF Sign(x0) * Sign(y0) = 0 THEN NaN
              ELSE IF Sign(x0) * Sign(y0) > 0 THEN PInf ELSE NInf)
        ELSE IF x0 = {} \/ y0 = {} THEN {}
        ELSE IF Cardinality(x0) = 1 /\ Cardinality(y0) = 1
        THEN TermMul(CHOOSE t \in x0 : TRUE, CHOOSE u \in y0 : TRUE)
        ELSE SumTerms(x0 \X y0),
           x, y)

\* 1/y for a finite non-zero number of one term: 1/(c*sqrt(s)) = sqrt(s)/(c*s).
Inv(y) ==
    {<<t[1], c[1], c[2]>> :
        <<t, c>> \in {<<u, Rat(u[3], u[2] * u[1])>> : u \in {v \in y : Cardinality(y) = 1}}}

\* IEEE division as numpy performs it: x/0 is nan or an infinity, no exception.
Div(x, y) ==
    Force2(LAMBDA x0, y0 :
        IF x0 = NaN \/ y0 = NaN THEN NaN
        ELSE IF ~IsFinite(y0) THEN (IF IsFinite(x0) THEN Zero ELSE NaN)
        ELSE IF y0 = Zero
        THEN (IF Sign(x0) = 0 THEN NaN ELSE IF Sign(x0) > 0 THEN PInf ELSE NInf)
        ELSE IF ~IsFinite(x0)
        THEN (IF Sign(x0) * Sign(y0) > 0 THEN PInf ELSE NInf)
        ELSE IF Cardinality(y0) = 1 THEN Mul(x0, Inv(y0))
        ELSE CHOOSE i \in {} : TRUE,
           x, y)

Less(x, y) ==
    Force2(LAMBDA x0, y0 : x0 # NaN /\ y0 # NaN /\ x0 # y0 /\ Sign(Sub(x0, y0)) < 0,
           x, y)

\* The largest c with c*c dividing m (m > 0).
SquarePart(m) ==
    CHOOSE c \in 1..m :
        /\ m % (c * c) = 0
        /\ \A e \in (c + 1)..m : e * e > m \/ m % (e * e) # 0

\* sqrt(n/d) = c*sqrt(s)/d, where n*d = c*c*s with s square-free.
SqrtTerm(m, d, c) ==
    {<<m \div (c * c), r[1], r[2]>> : r \in {Rat(c, d)}}

\* The square root of a rational x >= 0; of nan, nan.
Sqrt(x) ==
    Force1(LAMBDA x0 :
        IF x0 = Zero \/ ~IsFinite(x0) THEN x0
        ELSE LET t == CHOOSE u \in x0 : IsRational(x0) /\ u[2] > 0
             IN  SqrtTerm(t[2] * t[3], t[3], SquarePart(t[2] * t[3])),
           x)

\* ---------------------------------------------------------------- arrays
\* A 2-D array is a sequence of rows, a row a sequence of numbers.
NRows(a) == Len(a)
NCols(a) == Len(a[1])

\* np.array(..., dtype=float) of a table of integers.
AsFloat(D) == [i \in 1..Len(D) |-> [j \in 1..Len(D[1]) |-> N(D[i][j])]]

RECURSIVE SumFrom(_, _)
SumFrom(v, i) == IF i > Len(v) THEN Zero ELSE Add(v[i], SumFrom(v, i + 1))
SumSeq(v) ==
    Force1(LAMBDA v0 : SumFrom(v0, 1),
           v)

Column(a, j) == [i \in 1..NRows(a) |-> a[i][j]]
Transpose(a) ==
    Force1(LAMBDA a0 : [j \in 1..NCols(a0) |-> Column(a0, j)],
           a)

\* np.dot of two 2-D arrays.
Dot(a, b) ==
    Force2(LAMBDA a0, b0 :
        [i \in 1..NRows(a0) |->
            [k \in 1..NCols(b0) |->
                SumSeq([j \in 1..NCols(a0) |-> Mul(a0[i][j], b0[j][k])])]],
           a, b)

\* np.mean(a, axis=0): the column means, a 1-D array.
Mean0(a) ==
    Force1(LAMBDA a0 :
        [j \in 1..NCols(a0) |-> Div(SumSeq(Column(a0, j)), N(NRows(a0)))],
           a)

\* a - b, a / b with b a 1-D array broadcast over the rows of a.
SubRow(a, b) ==
    Force2(LAMBDA a0, b0 : [i \in 1..NRows(a0) |-> [j \in 1..NCols(a0) |-> Sub(a0[i][j], b0[j])]],
           a, b)
DivRow(a, b) ==
    Force2(LAMBDA a0, b0 : [i \in 1..NRows(a0) |-> [j \in 1..NCols(a0) |-> Div(a0[i][j], b0[j])]],
           a, b)
\* a - b of two 2-D arrays of one shape.
SubArray(a, b) ==
    Force2(LAMBDA a0, b0 :
        [i \in 1..NRows(a0) |-> [j \in 1..NCols(a0) |-> Sub(a0[i][j], b0[i][j])]],
           a, b)
\* a / c with c a scalar.
DivScalar(a, c) ==
    Force2(LAMBDA a0, c0 : [i \in 1..NRows(a0) |-> [j \in 1..NCols(a0) |-> Div(a0[i][j], c0)]],
           a, c)
\* a * a, cell by cell.
Square(a) ==
    Force1(LAMBDA a0 : [i \in 1..NRows(a0) |-> [j \in 1..NCols(a0) |-> Mul(a0[i][j], a0[i][j])]],
           a)
\* np.sqrt(v) of a 1-D array.
SqrtRow(v) == [j \in 1..Len(v) |-> Sqrt(v[j])]

\* np.std(a, axis=0): the population standard deviation of each column,
\* sqrt(mean(abs(a - mean(a))**2)).
Std0(a) == SqrtRow(Mean0(Square(SubRow(a, Mean0(a)))))

\* sum(a.diagonal()), a square.
Trace(a) ==
    Force1(LAMBDA a0 : SumSeq([i \in 1..NRows(a0) |-> a0[i][i]]),
           a)

\* ------------------------------------------------------------ sigqc_pca
\* i_dataset - dot(ones, means): the dataset with its column means removed.
Centered(i_dataset) ==
    Force1(LAMBDA i_dataset0 :
        SubArray(i_dataset0,
                 Dot([i \in 1..NRows(i_dataset0) |-> <<One>>], <<Mean0(i_dataset0)>>)),
           i_dataset)

\* a / np.std(a, axis=0)
Standardized(a) == DivRow(a, Std0(a))

\* A variant of Prepared that centers whatever center_around_mean says.
Prepared_AlwaysCentered(i_dataset, corr_matrix, center_around_mean) ==
    IF corr_matrix
    THEN Force1(Standardized, Centered(i_dataset))
    ELSE Centered(i_dataset)

\* The array a that getCovariance multiplies with its own transpose.
Prepared(i_dataset, corr_matrix, center_around_mean) ==
    IF center_around_mean
    THEN (IF corr_matrix
          THEN Force1(Standardized, Centered(i_dataset))
          ELSE Centered(i_dataset))
    ELSE i_dataset

\* dot(a.T, a)
Gram(a) == Dot(Transpose(a), a)

\* A variant of getCovariance that divides by n_rows where the code divides by
\* n_rows - 1.
getCovariance_DividedByRows(i_dataset, corr_matrix, scale_by_nrows, center_around_mean) ==
    IF scale_by_nrows
    THEN DivScalar(Force1(Gram, Prepared(i_dataset, corr_matrix, center_around_mean)),
                   N(NRows(i_dataset)))
    ELSE Force1(Gram, Prepared(i_dataset, corr_matrix, center_around_mean))

getCovariance(i_dataset, corr_matrix, scale_by_nrows, center_around_mean) ==
    IF scale_by_nrows
    THEN DivScalar(Force1(Gram, Prepared(i_dataset, corr_matrix, center_around_mean)),
                   N(NRows(i_dataset) - 1))
    ELSE Force1(Gram, Prepared(i_dataset, corr_matrix, center_around_mean))

\* x != y on doubles: nan differs from everything, itself included.
NotEqual(x, y) == x # y \/ x = NaN

\* The inner loop of getTotalVariance from column j on: it sets the flag at each
\* cell that equals its mirror image and stops at the first that does not.
RECURSIVE SymmetryInner(_, _, _, _)
SymmetryInner(a, i, j, isCovMatrix) ==
    IF j > NCols(a) THEN isCovMatrix
    ELSE IF NotEqual(a[i][j], a[j][i]) THEN isCovMatrix
    ELSE SymmetryInner(a, i, j + 1, TRUE)

RECURSIVE SymmetryOuter(_, _, _)
SymmetryOuter(a, i, isCovMatrix) ==
    IF i > NRows(a) THEN isCovMatrix
    ELSE SymmetryOuter(a, i + 1, SymmetryInner(a, i, 1, isCovMatrix))

\* The value of isCovMatrix when getTotalVariance chooses its branch.
IsCovMatrix(i_array) ==
    IF NRows(i_array) = NCols(i_array)
    THEN SymmetryOuter(i_array, 1, FALSE)
    ELSE FALSE

getTotalVariance(i_array) ==
    Force1(LAMBDA i_array0 :
        IF IsCovMatrix(i_array0)
        THEN Trace(i_array0)
        ELSE Trace(getCovariance(i_array0, FALSE, TRUE, TRUE)),
           i_array)

\* ndarray.argsort(): an index array that puts v in non-decreasing order.  The
\* order numpy gives to equal keys depends on the sorting kernel of the build,
\* so every sorting index array is a possible outcome.
IndexArrays(n) ==
    {ix \in [1..n -> 1..n] : \A i, j \in 1..n : i # j => ix[i] # ix[j]}

argsort(v) ==
    {ix \in IndexArrays(Len(v)) :
        \A i \in 1..(Len(v) - 1) : ~Less(v[ix[i + 1]], v[ix[i]])}

\* x[::-1]
Reversed(x) == [i \in 1..Len(x) |-> x[Len(x) + 1 - i]]

\* A variant of SortEigenV that reorders the eigenvalues and leaves the columns
\* of eigenvectors where they were.
SortEigenV_ValuesOnly(i_evals, i_evects, indeces) ==
    <<[j \in 1..Len(indeces) |-> i_evals[indeces[j]]], i_evects>>

\* sortEigen with the index array argsort returned.
SortEigenV(i_evals, i_evects, indeces) ==
    LET eigenvalues == [j \in 1..Len(indeces) |-> i_evals[indeces[j]]]
        eigenvectors == [i \in 1..NRows(i_evects) |->
                            [j \in 1..Len(indeces) |-> i_evects[i][indeces[j]]]]
    IN  <<eigenvalues, eigenvectors>>
\* A variant of SortEigenWith that keeps argsort's ascending order.
SortEigenWith_Ascending(i_evals, i_evects, sorted) ==
    <<[j \in 1..Len(sorted) |-> i_evals[sorted[j]]],
      [i \in 1..NRows(i_evects) |-> [j \in 1..Len(sorted) |-> i_evects[i][sorted[j]]]]>>
SortEigenWith(i_evals, i_evects, sorted) ==
    Force3(SortEigenV, i_evals, i_evects, Reversed(sorted))

\* The possible results of sortEigen(i_evals, i_evects).
sortEigen(i_evals, i_evects) ==
    {SortEigenWith(i_evals, i_evects, sorted) : sorted \in argsort(i_evals)}

\* ----------------------------------------------------- the eigensolver
\* np.linalg.eigh(a, UPLO='U') reads the upper triangle of a only.
Upper(a) ==
    Force1(LAMBDA a0 :
        [i \in 1..NRows(a0) |->
            [j \in 1..NCols(a0) |-> IF i <= j THEN a0[i][j] ELSE a0[j][i]]],
           a)

IsFiniteArray(a) == \A i \in 1..NRows(a) : \A j \in 1..NCols(a) : IsFinite(a[i][j])

\* The components an eigenvector of the model may have: 0, 1, -1, sqrt(2)/2 and
\* -sqrt(2)/2.  eigh is modelled on the matrices that have an orthonormal
\* eigenbasis with such components, which are the diagonal matrices and, among
\* others, every 2 x 2 matrix with equal diagonal cells.
Components == {Zero, One, Neg(One), {<<2, 1, 2>>}, {<<2, -1, 2>>}}

Inner(u, v) ==
    Force2(LAMBDA u0, v0 : SumSeq([i \in 1..Len(u0) |-> Mul(u0[i], v0[i])]),
           u, v)

UnitVectors ==
    [p \in 1..MaxEigDim |-> {v \in [1..p -> Components] : Inner(v, v) = One}]

\* a applied to the vector v.
Apply(a, v) ==
    Force2(LAMBDA a0, v0 : [i \in 1..NRows(a0) |-> Inner(a0[i], v0)],
           a, v)

\* <<v, w>> when a v = w v for the unit vector v, <<>> otherwise.
EigenPair(a, v) ==
    Force3(LAMBDA v0, av, w :
        IF \A i \in 1..Len(v0) : av[i] = Mul(w, v0[i]) THEN <<v0, w>> ELSE <<>>,
           v, Apply(a, v), Inner(v, Apply(a, v)))

\* The unit eigenvectors of a among UnitVectors, each with its eigenvalue.
EigenPairs(a) == {EigenPair(a, v) : v \in UnitVectors[NRows(a)]} \ {<<>>}

\* The orthonormal eigenbases b of p vectors drawn from the eigenpairs P, in
\* ascending order of eigenvalue.
Bases(P, p) ==
    {b \in [1..p -> P] :
        /\ \A i, j \in 1..p : i < j => Inner(b[i][1], b[j][1]) = Zero
        /\ \A i, j \in 1..p : i < j => Cardinality(Sub(b[i][2], b[j][2])) <= 2
        /\ \A i \in 1..(p - 1) : ~Less(b[i + 1][2], b[i][2])}

\* <<w, v>> for the basis b: w the eigenvalues, column j of v the j-th vector.
EighResult(b) ==
    <<[j \in 1..Len(b) |-> b[j][2]],
      [i \in 1..Len(b) |-> [j \in 1..Len(b) |-> b[j][1][i]]]>>

eighV(a) ==
    {EighResult(b) : b \in Force2(Bases, Force1(EigenPairs, a), NRows(a))}

\* The possible results <<w, v>> of np.linalg.eigh(a, UPLO='U'): the eigenvalues
\* w in ascending order and an array v whose column j is a unit eigenvector for
\* w[j], the columns orthogonal to each other.  Which basis of an eigenspace the
\* solver returns, and with which signs, is the solver's choice.
eigh(a) ==
    IF NRows(a) <= MaxEigDim /\ NRows(a) = NCols(a) /\ IsFiniteArray(a)
    THEN Force1(eighV, Upper(a))
    ELSE {}

\* The possible results of getEigen(i_array).
getEigen(i_array) ==
    UNION {sortEigen(e[1], e[2]) : e \in eigh(i_array)}

\* An optional n_pcs is <<>> for None and <<k>> for the integer k.
None == <<>>
Some(k) == <<k>>

\* getPCScores: n_pcs sizes an array of zeros that the projection then replaces.
getPCScores(i_dataset, i_evals, i_evects, n_pcs) ==
    LET n == IF n_pcs = None THEN NCols(i_evects) + 1 ELSE n_pcs[1]
        zeros == [i \in 1..n |-> [j \in 1..NRows(i_dataset) |-> Zero]]
        pc_scores == Dot(Centered(i_dataset), i_evects)
    IN  pc_scores

\* x[:n]
Take(x, n) == [i \in 1..(IF n < Len(x) THEN n ELSE Len(x)) |-> x[i]]

\* The loop of getCumPropVar from the i-th of vals on.
RECURSIVE CumulativeFrom(_, _, _, _)
CumulativeFrom(vals, i, tot_var, cumu_prop) ==
    IF i > Len(vals) THEN cumu_prop
    ELSE CumulativeFrom(vals, i + 1, tot_var,
                        Force2(Add, cumu_prop, Div(vals[i], tot_var)))

CumulativeV(vals, tot_var) == CumulativeFrom(vals, 1, tot_var, Zero)

getCumPropVar(i_dataset, i_evals, i_evects, n_pcs) ==
    Force2(CumulativeV,
           Take(i_evals, IF n_pcs = None THEN NCols(i_evects) ELSE n_pcs[1]),
           getTotalVariance(i_dataset))

\* -------------------------------------------------------------- the text
\* A text is a sequence of tokens; a token is a character or a whole word (a
\* marker, a flag, a serial number).  A line of a CSV file is the sequence of
\* its cells, each cell a text: csv.writer joins the cells with commas and
\* str.split(',') takes them apart again.
DigitChar == <<"0", "1", "2", "3", "4", "5", "6", "7", "8", "9">>
IsDigit(c) == \E d \in 1..10 : DigitChar[d] = c
DigitValue(c) == (CHOOSE d \in 1..10 : DigitChar[d] = c) - 1

RECURSIVE Digits(_)
\* str(n) for an integer n >= 0.
Digits(n) ==
    IF n < 10 THEN <<DigitChar[n + 1]>>
    ELSE Digits(n \div 10) \o <<DigitChar[(n % 10) + 1]>>

\* The text of one term: the coefficient num[/den] and, when the term is
\* irrational, r followed by the radicand.
\* A variant of FormatTerm that leaves the sign out.
FormatTerm_Unsigned(t) ==
    Digits(Abs(t[2]))
        \o (IF t[3] = 1 THEN <<>> ELSE <<"/">> \o Digits(t[3]))
        \o (IF t[1] = 1 THEN <<>> ELSE <<"r">> \o Digits(t[1]))

FormatTerm(t) ==
    (IF t[2] < 0 THEN <<"-">> ELSE <<>>) \o Digits(Abs(t[2]))
        \o (IF t[3] = 1 THEN <<>> ELSE <<"/">> \o Digits(t[3]))
        \o (IF t[1] = 1 THEN <<>> ELSE <<"r">> \o Digits(t[1]))

\* The term of x with the smallest radicand.
FirstTerm(x) == CHOOSE t \in x : \A u \in x : t[1] <= u[1]

RECURSIVE FormatTerms(_)
FormatTerms(x) ==
    IF Cardinality(x) = 1 THEN FormatTerm(FirstTerm(x))
    ELSE FormatTerm(FirstTerm(x)) \o <<"+">> \o FormatTerms(x \ {FirstTerm(x)})

\* str(x) of a double: the text that float() reads back as x.  The model's text
\* names the exact number, term by term.
FormatNumber(x) ==
    Force1(LAMBDA x0 :
        IF x0 = NaN THEN <<"n", "a", "n">>
        ELSE IF x0 = PInf THEN <<"i", "n", "f">>
        ELSE IF x0 = NInf THEN <<"-", "i", "n", "f">>
        ELSE IF x0 = Zero THEN <<"0">>
        ELSE FormatTerms(x0),
           x)

\* The index after the run of digits of text that starts at i.
RECURSIVE DigitsEnd(_, _)
DigitsEnd(text, i) ==
    IF i <= Len(text) /\ IsDigit(text[i]) THEN DigitsEnd(text, i + 1) ELSE i

\* The integer written in text[i..j-1], a run of digits.
RECURSIVE DigitsValue(_, _, _, _)
DigitsValue(text, i, j, acc) ==
    IF i >= j THEN acc
    ELSE DigitsValue(text, i + 1, j, 10 * acc + DigitValue(text[i]))

\* Whether an unsigned integer starts at i.
HasInt(text, i) == i <= Len(text) /\ IsDigit(text[i])

\* A term read from position i of text: <<ok, rad, num, den, next>>.
ReadRadicand(text, sign, num, den, k) ==
    IF k <= Len(text) /\ text[k] = "r"
    THEN <<HasInt(text, k + 1),
           DigitsValue(text, k + 1, DigitsEnd(text, k + 1), 0), sign * num, den,
           DigitsEnd(text, k + 1)>>
    ELSE <<TRUE, 1, sign * num, den, k>>

ReadDenominator(text, sign, num, k) ==
    IF k <= Len(text) /\ text[k] = "/"
    THEN IF HasInt(text, k + 1)
         THEN ReadRadicand(text, sign, num,
                           DigitsValue(text, k + 1, DigitsEnd(text, k + 1), 0),
                           DigitsEnd(text, k + 1))
         ELSE <<FALSE, 1, 0, 1, k>>
    ELSE ReadRadicand(text, sign, num, 1, k)

ReadUnsigned(text, sign, i) ==
    IF HasInt(text, i)
    THEN ReadDenominator(text, sign, DigitsValue(text, i, DigitsEnd(text, i), 0),
                         DigitsEnd(text, i))
    ELSE <<FALSE, 1, 0, 1, i>>

ReadTerm(text, i) ==
    IF i <= Len(text) /\ text[i] = "-"
    THEN ReadUnsigned(text, -1, i + 1)
    ELSE ReadUnsigned(text, 1, i)

\* The number a well-formed term stands for; nan for a zero denominator or
\* radicand, which no text the program writes contains.
TermNumber(t) ==
    IF t[4] = 0 \/ t[2] = 0 THEN NaN ELSE Mul(Q(t[3], t[4]), Sqrt(N(t[2])))

\* The terms of text from position i on, added up: <<ok, number>>.
RECURSIVE ReadTerms(_, _, _)
ReadTermsNext(text, t, acc) ==
    IF ~t[1] THEN <<FALSE, Zero>>
    ELSE IF t[5] > Len(text) THEN <<TRUE, Add(acc, TermNumber(t))>>
    ELSE IF text[t[5]] = "+" THEN ReadTerms(text, t[5] + 1, Add(acc, TermNumber(t)))
    ELSE <<FALSE, Zero>>
ReadTerms(text, i, acc) == Force3(ReadTermsNext, text, ReadTerm(text, i), acc)

\* float(text): <<ok, number>>; ok is FALSE where float raises ValueError.
ParseNumber(text) ==
    Force1(LAMBDA text0 :
        IF text0 = <<"n", "a", "n">> THEN <<TRUE, NaN>>
        ELSE IF text0 = <<"i", "n", "f">> THEN <<TRUE, PInf>>
        ELSE IF text0 = <<"-", "i", "n", "f">> THEN <<TRUE, NInf>>
        ELSE ReadTerms(text0, 1, Zero),
           text)

\* writer.writerow(v) for a 1-D array v: one cell for each number.
FormatRow(v) == [j \in 1..Len(v) |-> FormatNumber(v[j])]

\* marker in row, for a line of the file.
InRow(marker, row) ==
    \E c \in 1..Len(row) : \E i \in 1..Len(row[c]) : row[c][i] = marker

\* np.array(row.split(','), dtype=float): <<ok, 1-D array>>.
ParseRow(row) ==
    Force1(LAMBDA cells :
        IF \A j \in 1..Len(cells) : cells[j][1]
        THEN <<TRUE, [j \in 1..Len(cells) |-> cells[j][2]]>>
        ELSE <<FALSE, <<>>>>,
           [j \in 1..Len(row) |-> ParseNumber(row[j])])

\* ---------------------------------------------------- sigqc_implementpca
\* The values a caller may pass for corr_matrix: a Boolean, or a number used
\* as one.  A value carries its Python type.
PyBool(b) == <<"bool", b>>
PyInt(i) == <<"int", i>>
\* if (corr_matrix): the truth value of a Python value.
Truthy(value) == IF value[1] = "bool" THEN value[2] ELSE value[2] # 0

\* str(corr_matrix) for the Boolean corr_matrix.
StrBool(b) == IF b THEN "True" ELSE "False"
\* str(corr_matrix), the text of one cell.
Str(value) == IF value[1] = "bool" THEN <<StrBool(value[2])>> ELSE Digits(value[2])

\* The lines storeReferenceData writes.
\* A variant of SnapshotLines that writes one column of evecs on each line.
SnapshotLines_ByColumn(avgvector, stddev, corr_matrix, evals, evecs) ==
    << <<<<"BEGINAVGVECTOR">>>>, FormatRow(avgvector), <<<<"ENDAVGVECTOR">>>>,
       <<<<"BEGINSTANDDEV">>>>, FormatRow(stddev), <<<<"ENDSTANDDEV">>>>,
       <<<<"ISCORRMATRIX">>>>, <<Str(corr_matrix)>>, <<<<"ENDCORRMATRIX">>>>,
       <<<<"BEGINEVALS">>>>, FormatRow(evals), <<<<"ENDEVALS">>>>,
       <<<<"BEGINEVECS">>>> >>
    \o [j \in 1..NCols(evecs) |-> FormatRow(Column(evecs, j))]
    \o << <<<<"ENDEVECS">>>> >>

SnapshotLines(avgvector, stddev, corr_matrix, evals, evecs) ==
    << <<<<"BEGINAVGVECTOR">>>>, FormatRow(avgvector), <<<<"ENDAVGVECTOR">>>>,
       <<<<"BEGINSTANDDEV">>>>, FormatRow(stddev), <<<<"ENDSTANDDEV">>>>,
       <<<<"ISCORRMATRIX">>>>, <<Str(corr_matrix)>>, <<<<"ENDCORRMATRIX">>>>,
       <<<<"BEGINEVALS">>>>, FormatRow(evals), <<<<"ENDEVALS">>>>,
       <<<<"BEGINEVECS">>>> >>
    \o [i \in 1..NRows(evecs) |-> FormatRow(evecs[i])]
    \o << <<<<"ENDEVECS">>>> >>

\* The possible contents of the file storeReferenceData(dataset, corr_matrix)
\* writes, each with the eigenvalues and eigenvectors it holds:
\* <<lines, evals, evecs>>.
StoreWith(dataset, corr_matrix, eigen) ==
    <<SnapshotLines(Mean0(dataset), Std0(dataset), corr_matrix, eigen[1], eigen[2]),
      eigen[1], eigen[2]>>

storeReferenceData(dataset, corr_matrix) ==
    Force2(LAMBDA dataset0, corr_matrix0 :
        {Force3(StoreWith, dataset0, corr_matrix0, eigen) :
            eigen \in Force1(getEigen,
                getCovariance(dataset0, Truthy(corr_matrix0), TRUE, TRUE))},
           dataset, corr_matrix)

\* The reader of implementPCA.  c is its state: the lines of the file, the
\* index pos of the line the iterator yields next, the current row, what has
\* been parsed (<<>> stands for None and for a name not bound yet), and err,
\* the exception raised ("" for none).
ReaderStart(lines) ==
    [lines |-> lines, pos |-> 1, row |-> <<>>, avgvec |-> <<>>, stddev |-> <<>>,
     corr_matrix |-> <<>>, evals |-> <<>>, evecs |-> <<>>, err |-> ""]

\* row = next(f)
NextRow(c) ==
    Force1(LAMBDA c0 :
        IF c0.err # "" THEN c0
        ELSE IF c0.pos > Len(c0.lines) THEN [c0 EXCEPT !.err = "StopIteration"]
        ELSE [c0 EXCEPT !.row = c0.lines[c0.pos], !.pos = c0.pos + 1],
           c)

\* while (end not in row): row = next(f)
RECURSIVE SkipToV(_, _)
SkipToV(c, end) ==
    IF c.err # "" \/ InRow(end, c.row) THEN c
    ELSE Force2(SkipToV, NextRow(c), end)
SkipTo(c, end) == Force2(SkipToV, c, end)

\* name = np.array(row.split(','), dtype=float), then skip to the end marker.
StoreVector(c, name) ==
    Force3(LAMBDA c0, parsed, name0 :
        IF c0.err # "" THEN c0
        ELSE IF ~parsed[1] THEN [c0 EXCEPT !.err = "ValueError"]
        ELSE [c0 EXCEPT ![name0] = parsed[2]],
           c, ParseRow(c.row), name)

\* if (begin in row): row = next(f); name = ...; skip to end
VectorSectionV(c, begin, end, name) ==
    IF c.err # "" \/ ~InRow(begin, c.row) THEN c
    ELSE SkipTo(Force2(StoreVector, NextRow(c), name), end)

AvgSection(c, begin, end) == VectorSectionV(c, begin, end, "avgvec")
StdSection(c, begin, end) == VectorSectionV(c, begin, end, "stddev")
EvalsSection(c, begin, end) == VectorSectionV(c, begin, end, "evals")

\* corr_matrix = str(row)
StoreText(c) == IF c.err # "" THEN c ELSE [c EXCEPT !.corr_matrix = c.row]

FlagSectionV(c) ==
    IF c.err # "" \/ ~InRow("ISCORRMATRIX", c.row) THEN c
    ELSE SkipTo(Force1(StoreText, NextRow(c)), "ENDCORRMATRIX")

\* A variant of AppendVectorV that puts each new row before the earlier ones.
AppendVectorV_Prepended(c, parsed) ==
    IF ~parsed[1] THEN [c EXCEPT !.err = "ValueError"]
    ELSE [c EXCEPT !.evecs = <<parsed[2]>> \o c.evecs]

\* while ("ENDEVECS" not in row): evecs.append(...); row = next(f)
AppendVectorV(c, parsed) ==
    IF ~parsed[1] THEN [c EXCEPT !.err = "ValueError"]
    ELSE [c EXCEPT !.evecs = Append(c.evecs, parsed[2])]
RECURSIVE CollectV(_)
CollectV(c) ==
    IF c.err # "" \/ InRow("ENDEVECS", c.row) THEN c
    ELSE Force1(CollectV, NextRow(Force2(AppendVectorV, c, ParseRow(c.row))))

VectorsSectionV(c) ==
    IF c.err # "" \/ ~InRow("BEGINEVECS", c.row) THEN c
    ELSE Force1(CollectV, NextRow(c))

\* The body of "for row in f": the five tests, one after the other, on the row
\* the previous section left.
LoopBody(c) ==
    Force1(VectorsSectionV,
      Force3(EvalsSection,
        Force1(FlagSectionV,
          Force3(StdSection,
            Force3(AvgSection, c, "BEGINAVGVECTOR", "ENDAVGVECTOR"),
            "BEGINSTANDDEV", "ENDSTANDDEV")),
        "BEGINEVALS", "ENDEVALS"))

\* A variant of ReadLoop that ends at the first line that begins no section.
RECURSIVE ReadLoop_SectionsOnly(_)
ReadLoop_SectionsOnly(c) ==
    IF c.err # "" \/ c.pos > Len(c.lines) THEN c
    ELSE Force1(LAMBDA n :
            IF \E begin \in {"BEGINAVGVECTOR", "BEGINSTANDDEV", "ISCORRMATRIX",
                              "BEGINEVALS", "BEGINEVECS"} : InRow(begin, n.row)
            THEN Force1(ReadLoop_SectionsOnly, Force1(LoopBody, n))
            ELSE n,
                NextRow(c))

\* for row in f: ...
RECURSIVE ReadLoop(_)
ReadLoop(c) ==
    IF c.err # "" \/ c.pos > Len(c.lines) THEN c
    ELSE Force1(ReadLoop, Force1(LoopBody, NextRow(c)))

\* The reader's state after the whole file.
ReadSnapshot(lines) == Force1(ReadLoop, ReaderStart(lines))

\* input_type.lower() names a supported kind of file.
IsSupported(input_type) == input_type \in {"ascii", "unit"}

\* a - v, a / v with numpy's broadcasting of the 1-D array v against the 2-D
\* array a: the lengths agree, or one of them is 1 and is stretched.
Broadcasts(a, v) == NCols(a) = Len(v) \/ Len(v) = 1 \/ NCols(a) = 1
At(v, j) == IF Len(v) = 1 THEN v[1] ELSE v[j]
BroadcastCols(a, v) == IF NCols(a) = 1 THEN Len(v) ELSE NCols(a)
\* A variant of BroadcastSub that subtracts the column means of a itself.
BroadcastSub_OwnMean(a, v) == SubRow(a, Mean0(a))
BroadcastSub(a, v) ==
    Force2(LAMBDA a0, v0 :
        [i \in 1..NRows(a0) |->
            [j \in 1..BroadcastCols(a0, v0) |-> Sub(At(a0[i], j), At(v0, j))]],
           a, v)
BroadcastDiv(a, v) ==
    Force2(LAMBDA a0, v0 :
        [i \in 1..NRows(a0) |->
            [j \in 1..BroadcastCols(a0, v0) |-> Div(At(a0[i], j), At(v0, j))]],
           a, v)

\* np.dot(a, evecs) is defined: evecs, a list of 1-D arrays, makes a 2-D array
\* with as many rows as a has columns.
DotDefined(a, evecs) ==
    /\ Len(evecs) = NCols(a)
    /\ \A i \in 1..Len(evecs) : Len(evecs[i]) = Len(evecs[1])

\* The scoring step of implementPCA on the reader's final state c:
\* [err, pcscores], err the exception raised ("" for none).
Raised(err) == [err |-> err, pcscores |-> <<>>]
Projected(a, evecs) ==
    IF DotDefined(a, evecs) THEN [err |-> "", pcscores |-> Dot(a, evecs)]
    ELSE Raised("ValueError")
ScoreCovariance(c, dataset) ==
    IF c.avgvec = None THEN Raised("TypeError")
    ELSE IF ~Broadcasts(dataset, c.avgvec) THEN Raised("ValueError")
    ELSE Projected(BroadcastSub(dataset, c.avgvec), c.evecs)
Scaled(c, centered) ==
    IF ~Broadcasts(centered, c.stddev) THEN Raised("ValueError")
    ELSE Projected(BroadcastDiv(centered, c.stddev), c.evecs)
ScoreCorrelation(c, dataset) ==
    IF c.avgvec = None THEN Raised("TypeError")
    ELSE IF ~Broadcasts(dataset, c.avgvec) THEN Raised("ValueError")
    ELSE IF c.stddev = <<>> THEN Raised("UnboundLocalError")
    ELSE Force2(Scaled, c, BroadcastSub(dataset, c.avgvec))
ScoreV(c, dataset) ==
    IF c.err # "" THEN Raised(c.err)
    ELSE IF c.corr_matrix = <<>> THEN Raised("UnboundLocalError")
    ELSE IF InRow("True", c.corr_matrix) THEN ScoreCorrelation(c, dataset)
    ELSE ScoreCovariance(c, dataset)
Score(lines, dataset) == Force2(ScoreV, ReadSnapshot(lines), dataset)

\* The exception the report branch ends with.  plotPCScores reads column i+1
\* for every i < n_pcs; SigQCReport.writeReport reads i_filepath, a name that
\* is not defined anywhere.
ReportError(pcscores, n_pcs) ==
    IF n_pcs >= 1 /\ n_pcs >= NCols(pcscores) THEN "IndexError" ELSE "NameError"

\* The lines of [o_file].csv: the column names, then one line for each unit.
ScoresCsv(serialnumbers, pcscores) ==
    << <<<<"Serial Number">>>> \o [j \in 1..NCols(pcscores) |-> Digits(j)] >>
    \o [i \in 1..NRows(pcscores) |-> <<serialnumbers[i]>> \o FormatRow(pcscores[i])]

\* implementPCA on the lines of the reference file and the table and serial
\* numbers of the test file: [err, pcscores, csv], csv the lines written to
\* [o_file].csv, <<>> when the file is not written.  implementPCAWith takes
\* the reader's final state c in place of the lines.
Finished(serialnumbers, scored, generate_report, n_pcs) ==
    IF scored.err # "" THEN [err |-> scored.err, pcscores |-> <<>>, csv |-> <<>>]
    ELSE IF generate_report
    THEN [err |-> ReportError(scored.pcscores, n_pcs),
          pcscores |-> scored.pcscores, csv |-> <<>>]
    ELSE [err |-> "", pcscores |-> scored.pcscores,
          csv |-> ScoresCsv(serialnumbers, scored.pcscores)]
implementPCAWith(c, input_type, dataset, serialnumbers, generate_report, n_pcs) ==
    IF ~IsSupported(input_type)
    THEN [err |-> "Exception", pcscores |-> <<>>, csv |-> <<>>]
    ELSE Finished(serialnumbers, Force2(ScoreV, c, dataset), generate_report, n_pcs)
implementPCA(lines, input_type, dataset, serialnumbers, generate_report, n_pcs) ==
    CHOOSE r \in {implementPCAWith(c, input_type, dataset, serialnumbers,
                                   generate_report, n_pcs) :
                      c \in {ReadSnapshot(lines)}} : TRUE

\* ------------------------------------------------------------ sigqc_hmethod
\* for i in range(n): evecs[:,i] = evecs[:,i]*evals[i], on the first n columns
\* of evecs.
WeightColumns(evecs, evals, n) ==
    [i \in 1..NRows(evecs) |->
        [j \in 1..NCols(evecs) |->
            IF j <= n THEN Mul(evecs[i][j], evals[j]) ELSE evecs[i][j]]]

\* np.sum(a, axis=0): the sum of each column, a 1-D array.
Sum0(a) == [j \in 1..NCols(a) |-> SumSeq(Column(a, j))]

\* np.sqrt(sum(i_vector**2))
calcMagnitude(i_vector) ==
    Sqrt(SumSeq([j \in 1..Len(i_vector) |-> Mul(i_vector[j], i_vector[j])]))

\* A variant of Lower that leaves the text as given.
Lower_AsGiven(text) == text
\* angle_units.lower(), on the texts of AngleUnits.
Lower(text) ==
    IF text = "D" THEN "d" ELSE IF text = "R" THEN "r"
    ELSE IF text = "Deg" THEN "deg" ELSE text

\* angleEvecs: [err, angle], angle <<>> when an exception is raised.  An angle
\* is kept as its cosine and what the arccosine is multiplied by, "1" or
\* "180/pi"; math.acos raises ValueError outside -1..1 and returns nan for nan.
angleEvecs(itot_test_eigenvec, itot_ref_eigenvec, angle_units) ==
    IF Len(itot_ref_eigenvec) # Len(itot_test_eigenvec)
    THEN [err |-> "ValueError", angle |-> <<>>]
    ELSE \* Q = np.dot(itot_ref_eigenvec.T, itot_test_eigenvec)
         LET Q0 == Force1(SumSeq, [j \in 1..Len(itot_ref_eigenvec) |->
                        Mul(itot_ref_eigenvec[j], itot_test_eigenvec[j])])
         IN  IF Q0 # NaN /\ (Less(One, Q0) \/ Less(Q0, Neg(One)))
             THEN [err |-> "ValueError", angle |-> <<>>]
             ELSE IF Lower(angle_units) = "d"
             THEN [err |-> "", angle |-> [cos |-> Q0, times |-> "180/pi"]]
             ELSE IF Lower(angle_units) = "r"
             THEN [err |-> "", angle |-> [cos |-> Q0, times |-> "1"]]
             ELSE [err |-> "Exception", angle |-> <<>>]

\* total/magnitude, with magnitude = calcMagnitude(total).
Normalized(total) ==
    Force2(LAMBDA v, magnitude : [j \in 1..Len(v) |-> Div(v[j], magnitude)],
           total, calcMagnitude(total))

\* hMethod from the results test and ref of the two calls of np.linalg.eigh:
\* [err, angle, total_test_evec, total_ref_evec], the totals as handed to
\* angleEvecs, <<>> when the weighting loop raised.
hMethodWith(test, ref, angle_units) ==
    IF NCols(ref[2]) < NCols(test[2])
    THEN [err |-> "IndexError", angle |-> <<>>,
          total_test_evec |-> <<>>, total_ref_evec |-> <<>>]
    ELSE Force2(LAMBDA total_test_evec, total_ref_evec :
            LET r == angleEvecs(total_test_evec, total_ref_evec, angle_units)
            IN  [err |-> r.err, angle |-> r.angle,
                 total_test_evec |-> total_test_evec,
                 total_ref_evec |-> total_ref_evec],
                Normalized(Sum0(WeightColumns(test[2], test[1], NCols(test[2])))),
                Normalized(Sum0(WeightColumns(ref[2], ref[1], NCols(test[2])))))

\* The covariance hMethod takes of a dataset: A.T dot A, not centred, not
\* scaled.
HCovariance(i_data) == getCovariance(i_data, FALSE, FALSE, FALSE)

\* The results of the two calls of np.linalg.eigh in hMethod, test being one of
\* the possible results for the test data: <<test, ref>>.  The solver returns
\* the same arrays for the same matrix.
SolvedWith(test, test_data_cov, ref_data_cov) ==
    IF test_data_cov = ref_data_cov THEN {<<test, test>>}
    ELSE {<<test, ref>> : ref \in eigh(ref_data_cov)}

\* The possible results of hMethod(i_test_data, i_ref_data, angle_units).
hMethod(i_test_data, i_ref_data, angle_units) ==
    Force2(LAMBDA test_data_cov, ref_data_cov :
        UNION {{hMethodWith(e[1], e[2], angle_units) :
                    e \in SolvedWith(test, test_data_cov, ref_data_cov)} :
                test \in eigh(test_data_cov)},
           HCovariance(i_test_data), HCovariance(i_ref_data))

\* ---------------------------------------------------------------- inputs
Shapes == {s \in (1..MaxCells) \X (1..MaxCells) : s[1] * s[2] <= MaxCells}

\* The two datasets the documentation works through by hand.
WorkedExamples == {<<<<1, 2>>, <<3, 4>>, <<5, 6>>>>, <<<<1, 2, 3>>>>}

Datasets ==
    WorkedExamples \cup
    UNION {[1..s[1] -> [1..s[2] -> 0..MaxVal]] : s \in Shapes}

\* Eigenvalue sequences handed to sortEigen directly, repeated values included.
EvalSeqs == UNION {[1..n -> (0 - MaxVal)..MaxVal] : n \in 1..MaxEvals}

\* The values passed for corr_matrix: the two Booleans and the number 1.
CorrValues == {PyBool(FALSE), PyBool(TRUE), PyInt(1)}

\* The kinds of file a session may name, one of them unsupported.
InputTypes == {"ascii", "unit", "xml"}

\* A test row of p values none of which occurs in a reference dataset.
Probe(p) == [j \in 1..p |-> MaxVal + j]

\* The test tables scored against the reference dataset D: D itself, each unit
\* of D alone, units D has not seen, alone and next to a unit of D, and tables
\* of another width.
TestDatasets(D) ==
    {D} \cup {<<D[i]>> : i \in 1..Len(D)}
        \cup {<<Probe(Len(D[1]))>>, <<D[1], Probe(Len(D[1]))>>}
        \cup {<<Probe(1)>>, <<Probe(Len(D[1]) + 1)>>}

\* The serial number of unit i of a test file.
SerialNumbers(n) == [i \in 1..n |-> <<"SN">> \o Digits(i)]

\* An n x n array whose cell (i, j) names its own position, so that the columns
\* can be told apart after sorting.
Tagged(n) == [i \in 1..n |-> [j \in 1..n |-> N(10 * i + j)]]

\* The datasets handed to hMethod: the tables of one or two units and at most
\* MaxEigDim columns, and a unit whose two values cancel.
HDatasets ==
    {D \in Datasets : Len(D) <= 2 /\ Len(D[1]) <= MaxEigDim} \cup {<<<<1, -1>>>>}

\* The values passed for angle_units.
AngleUnits == {"d", "r", "D", "R", "Deg", ""}

\* ----------------------------------------------------------------- state
\* A session of the kind the header of sigqc_pca.py shows: a dataset is loaded,
\* its covariance taken, the covariance decomposed, and scores or variance
\* proportions computed from the result.
\*   casedata    the dataset loaded (a table of integers), <<>> when the session
\*               is a direct call of sortEigen instead
\*   cov_args    the flags getCovariance was called with, cov_matrix its result
\*   e_vals, e_vects   the result of getEigen(cov_matrix)
\*   fn, args, ret     the function called last, its arguments other than the
\*               session's arrays, and what it returned
\*   reffile, csvfile  the lines of the reference file storeReferenceData wrote
\*               and of the scores file implementPCA wrote, <<>> while there is
\*               no such file
\*   arrays      the arrays the caller of the numerical core holds, as blocks
\*               of memory: their kind and how often a call stored into them
\*   identifiers         the list a SigQCTestCaseGroup holds (_identifiers)
\*   testfile, dataobj   the lines of a SigQC ASCII test case file and the
\*               SigQCAsciiTestCaseFile object made from it
VARIABLES casedata, cov_args, cov_matrix, e_vals, e_vects, fn, args, ret,
          reffile, csvfile, arrays, testfile, dataobj, identifiers

vars == <<casedata, cov_args, cov_matrix, e_vals, e_vects, fn, args, ret,
          reffile, csvfile, arrays, testfile, dataobj, identifiers>>

\* What the sessions below leave alone.
others == <<arrays, testfile, dataobj, identifiers>>
NoOthers == arrays = <<>> /\ testfile = <<>> /\ dataobj = <<>> /\ identifiers = <<>>

Init ==
    /\ \/ casedata \in Datasets /\ args = <<>>
       \/ casedata = <<>> /\ args \in EvalSeqs
    /\ cov_args = <<>>
    /\ cov_matrix = <<>>
    /\ e_vals = <<>>
    /\ e_vects = <<>>
    /\ fn = "load"
    /\ ret = <<>>
    /\ reffile = <<>>
    /\ csvfile = <<>>
    /\ NoOthers

\* cov_matrix = getCovariance(casedata, ...)
Call_getCovariance ==
    /\ fn = "load"
    /\ casedata # <<>>
    /\ \E corr_matrix, scale_by_nrows, center_around_mean \in BOOLEAN :
        /\ cov_args' = [corr_matrix |-> corr_matrix,
                        scale_by_nrows |-> scale_by_nrows,
                        center_around_mean |-> center_around_mean]
        /\ cov_matrix' = getCovariance(AsFloat(casedata), corr_matrix,
                                       scale_by_nrows, center_around_mean)
    /\ fn' = "getCovariance"
    /\ ret' = cov_matrix'
    /\ UNCHANGED <<casedata, e_vals, e_vects, args, reffile, csvfile, others>>

\* e_vals, e_vects = getEigen(cov_matrix)
Call_getEigen ==
    /\ fn = "getCovariance"
    /\ \E r \in getEigen(cov_matrix) :
        /\ e_vals' = r[1]
        /\ e_vects' = r[2]
        /\ ret' = r
    /\ fn' = "getEigen"
    /\ UNCHANGED <<casedata, cov_args, cov_matrix, args, reffile, csvfile, others>>

\* pc = getPCScores(casedata, e_vals, e_vects[, n_pcs])
Call_getPCScores ==
    /\ fn = "getEigen"
    /\ \E n_pcs \in {None} \cup {Some(k) : k \in 1..NCols(e_vects)} :
        /\ args' = [n_pcs |-> n_pcs]
        /\ ret' = getPCScores(AsFloat(casedata), e_vals, e_vects, n_pcs)
    /\ fn' = "getPCScores"
    /\ UNCHANGED <<casedata, cov_args, cov_matrix, e_vals, e_vects, reffile, csvfile, others>>

\* getCumPropVar(casedata, e_vals, e_vects[, n_pcs])
Call_getCumPropVar ==
    /\ fn = "getEigen"
    /\ \E n_pcs \in {None} \cup {Some(k) : k \in 1..NCols(e_vects)} :
        /\ args' = [n_pcs |-> n_pcs]
        /\ ret' = getCumPropVar(AsFloat(casedata), e_vals, e_vects, n_pcs)
    /\ fn' = "getCumPropVar"
    /\ UNCHANGED <<casedata, cov_args, cov_matrix, e_vals, e_vects, reffile, csvfile, others>>

\* getTotalVariance(casedata): the argument is the original dataset.
Call_getTotalVariance ==
    /\ fn = "load"
    /\ casedata # <<>>
    /\ ret' = getTotalVariance(AsFloat(casedata))
    /\ fn' = "getTotalVariance"
    /\ UNCHANGED <<casedata, cov_args, cov_matrix, e_vals, e_vects, args, reffile, csvfile, others>>

\* getTotalVariance(cov_matrix): the argument is the covariance matrix.
Call_getTotalVarianceOfCov ==
    /\ fn = "getCovariance"
    /\ ret' = getTotalVariance(cov_matrix)
    /\ fn' = "getTotalVarianceOfCov"
    /\ UNCHANGED <<casedata, cov_args, cov_matrix, e_vals, e_vects, args, reffile, csvfile, others>>

\* sortEigen(i_evals, i_evects) on eigenvalues in any order.
Call_sortEigen ==
    /\ fn = "load"
    /\ casedata = <<>>
    /\ LET i_evals == [j \in 1..Len(args) |-> N(args[j])]
           i_evects == Tagged(Len(args))
       IN  \E r \in sortEigen(i_evals, i_evects) :
               /\ e_vals' = r[1]
               /\ e_vects' = r[2]
               /\ ret' = r
    /\ fn' = "sortEigen"
    /\ UNCHANGED <<casedata, cov_args, cov_matrix, args, reffile, csvfile, others>>

Next ==
    \/ Call_getCovariance
    \/ Call_getEigen
    \/ Call_getPCScores
    \/ Call_getCumPropVar
    \/ Call_getTotalVariance
    \/ Call_getTotalVarianceOfCov
    \/ Call_sortEigen

Spec == Init /\ [][Next]_vars

\* A session of the kind the header of sigqc_implementpca.py shows: the
\* reference file is fitted on the dataset loaded, then a test file of the same
\* kind is scored against it.  args carries the kind of file from the start.
RefInit ==
    /\ casedata \in Datasets
    /\ args \in [input_type : InputTypes]
    /\ cov_args = <<>>
    /\ cov_matrix = <<>>
    /\ e_vals = <<>>
    /\ e_vects = <<>>
    /\ fn = "load"
    /\ ret = <<>>
    /\ reffile = <<>>
    /\ csvfile = <<>>
    /\ NoOthers

\* storeReferenceData(casedata file, input_type, corr_matrix=...)
Call_storeReferenceData ==
    /\ fn = "load"
    /\ \E corr_matrix \in CorrValues :
        /\ args' = [input_type |-> args.input_type, corr_matrix |-> corr_matrix]
        /\ IF IsSupported(args.input_type)
           THEN /\ cov_args' = [corr_matrix |-> Truthy(corr_matrix),
                                scale_by_nrows |-> TRUE,
                                center_around_mean |-> TRUE]
                /\ cov_matrix' = getCovariance(AsFloat(casedata), Truthy(corr_matrix),
                                               TRUE, TRUE)
                /\ \E stored \in storeReferenceData(AsFloat(casedata), corr_matrix) :
                    /\ reffile' = stored[1]
                    /\ e_vals' = stored[2]
                    /\ e_vects' = stored[3]
                /\ ret' = [err |-> ""]
           ELSE /\ ret' = [err |-> "Exception"]
                /\ UNCHANGED <<cov_args, cov_matrix, e_vals, e_vects, reffile>>
    /\ fn' = "storeReferenceData"
    /\ UNCHANGED <<casedata, csvfile, others>>

\* implementPCA(reffile, test file, input_type, generate_report=..., n_pcs=...);
\* c is what the reader makes of reffile.
Call_implementPCA ==
    /\ fn = "storeReferenceData"
    /\ \E c \in {ReadSnapshot(reffile)} :
       \E dataset \in TestDatasets(casedata), generate_report \in BOOLEAN,
          n_pcs \in {1, 10} :
        /\ generate_report \/ n_pcs = 10
        /\ args' = [input_type |-> args.input_type, dataset |-> dataset,
                    generate_report |-> generate_report, n_pcs |-> n_pcs]
        /\ ret' = implementPCAWith(c, args.input_type, AsFloat(dataset),
                                   SerialNumbers(Len(dataset)), generate_report, n_pcs)
        /\ csvfile' = ret'.csv
    /\ fn' = "implementPCA"
    /\ UNCHANGED <<casedata, cov_args, cov_matrix, e_vals, e_vects, reffile, others>>

RefNext ==
    \/ Call_storeReferenceData
    \/ Call_implementPCA

RefSpec == RefInit /\ [][RefNext]_vars

\* A comparison by the H Method: the dataset loaded is the test data, the
\* reference data is the same dataset or a single unit.
HInit ==
    /\ casedata \in HDatasets
    /\ args = <<>>
    /\ cov_args = <<>>
    /\ cov_matrix = <<>>
    /\ e_vals = <<>>
    /\ e_vects = <<>>
    /\ fn = "load"
    /\ ret = <<>>
    /\ reffile = <<>>
    /\ csvfile = <<>>
    /\ NoOthers

\* hMethod(casedata, i_ref_data, angle_units); e_vals and e_vects are what
\* np.linalg.eigh returned for the test data.
Call_hMethod ==
    /\ fn = "load"
    /\ cov_args' = [corr_matrix |-> FALSE, scale_by_nrows |-> FALSE,
                    center_around_mean |-> FALSE]
    /\ cov_matrix' = HCovariance(AsFloat(casedata))
    /\ \E test \in eigh(cov_matrix') :
       \E i_ref_data \in {casedata} \cup {D \in HDatasets : Len(D) = 1} :
       \E e \in SolvedWith(test, cov_matrix', HCovariance(AsFloat(i_ref_data))) :
       \E angle_units \in AngleUnits :
        /\ args' = [i_ref_data |-> i_ref_data, angle_units |-> angle_units]
        /\ ret' = hMethodWith(e[1], e[2], angle_units)
        /\ e_vals' = test[1]
        /\ e_vects' = test[2]
    /\ fn' = "hMethod"
    /\ UNCHANGED <<casedata, reffile, csvfile, others>>

HNext == Call_hMethod

HSpec == HInit /\ [][HNext]_vars

\* ------------------------------------------------- arrays as memory blocks
\* What each function of the numerical core does to memory, statement by
\* statement.  A statement <<"new", x>> binds x to a newly allocated array (the
\* result of np.dot, of an arithmetic expression, of np.zeros, np.array, np.sum,
\* np.linalg.eigh or of indexing with an index array), <<"view", x, y>> binds x
\* to the memory of y (plain assignment, .T, .reshape, a slice), and
\* <<"store", x>> writes into the memory of x (assignment to x[...]).

\* A variant of ArraysOf_getCovariance that centres the dataset where it is.
ArraysOf_getCovariance_InPlace(corr_matrix, scale_by_nrows, center_around_mean) ==
    << <<"view", "a", "i_dataset">>, <<"store", "a">>,
       <<"new", "dotresult">>, <<"view", "cov_matrix", "dotresult">> >>

ArraysOf_getCovariance(corr_matrix, scale_by_nrows, center_around_mean) ==
    (IF center_around_mean
     THEN << <<"new", "means">>, <<"new", "ones">>, <<"new", "means_prime">>,
             <<"new", "a">> >>
          \o (IF corr_matrix THEN << <<"new", "std">>, <<"new", "a">> >> ELSE <<>>)
     ELSE << <<"view", "a", "i_dataset">> >>)
    \o << <<"new", "dotresult">> >>
    \o (IF scale_by_nrows THEN << <<"new", "cov_matrix">> >>
        ELSE << <<"view", "cov_matrix", "dotresult">> >>)

ArraysOf_sortEigen ==
    << <<"new", "indeces">>, <<"new", "eigenvalues">>, <<"new", "eigenvectors">> >>

ArraysOf_getEigen ==
    << <<"new", "evals">>, <<"new", "evecs">>,
       <<"view", "i_evals", "evals">>, <<"view", "i_evects", "evecs">> >>
    \o ArraysOf_sortEigen

ArraysOf_getPCScores ==
    << <<"new", "pc_scores">>, <<"new", "means">>, <<"new", "ones">>,
       <<"new", "means_prime">>, <<"new", "a">>, <<"new", "pc_scores">> >>

\* isCovMatrix tells which branch getTotalVariance takes.
ArraysOf_getTotalVariance(isCovMatrix) ==
    IF isCovMatrix THEN << <<"view", "diagonal", "i_array">> >>
    ELSE << <<"view", "i_dataset", "i_array">> >>
         \o ArraysOf_getCovariance(FALSE, TRUE, TRUE)
         \o << <<"view", "cov", "cov_matrix">>, <<"view", "diagonal", "cov">> >>

ArraysOf_getCumPropVar(isCovMatrix) ==
    << <<"view", "i_array", "i_dataset">> >>
    \o ArraysOf_getTotalVariance(isCovMatrix)
    \o << <<"view", "val", "i_evals">> >>

ArraysOf_hMethod ==
    << <<"view", "i_dataset", "i_test_data">> >>
    \o ArraysOf_getCovariance(FALSE, FALSE, FALSE)
    \o << <<"view", "test_data_cov", "cov_matrix">>,
          <<"view", "i_dataset", "i_ref_data">> >>
    \o ArraysOf_getCovariance(FALSE, FALSE, FALSE)
    \o << <<"view", "ref_data_cov", "cov_matrix">>,
          <<"new", "test_evals">>, <<"new", "test_evecs">>,
          <<"new", "ref_evals">>, <<"new", "ref_evecs">>,
          <<"store", "test_evecs">>, <<"store", "ref_evecs">>,
          <<"new", "total_test_evec">>, <<"new", "total_ref_evec">>,
          <<"new", "total_test_evec">>, <<"new", "total_ref_evec">>,
          <<"view", "itot_test_eigenvec", "total_test_evec">>,
          <<"view", "itot_ref_eigenvec", "total_ref_evec">> >>

\* The memory while a function runs: env, the block each name is bound to, and
\* stores, for each block the number of times it was written.
Bind(env, name, block) ==
    [x \in DOMAIN env \cup {name} |-> IF x = name THEN block ELSE env[x]]

Execute(m, statement) ==
    IF statement[1] = "new"
    THEN [env |-> Bind(m.env, statement[2], Len(m.stores) + 1),
          stores |-> Append(m.stores, 0)]
    ELSE IF statement[1] = "view"
    THEN [env |-> Bind(m.env, statement[2], m.env[statement[3]]), stores |-> m.stores]
    ELSE [env |-> m.env,
          stores |-> [m.stores EXCEPT ![m.env[statement[2]]] = @ + 1]]

RECURSIVE ExecuteAll(_, _, _)
ExecuteAll(m, statements, i) ==
    IF i > Len(statements) THEN m
    ELSE ExecuteAll(Execute(m, statements[i]), statements, i + 1)

\* The most arrays a caller holds.
MaxArrays == 6

\* The blocks of the caller's arrays of one of the kinds.
Held(kinds) == {b \in 1..Len(arrays) : arrays[b].kind \in kinds}

\* A call of the function fname with the statements given: params binds its
\* parameters to blocks of the caller, returns names what it returns (<<>> for a
\* number) and kinds says what kind of array each returned value is.  The
\* caller keeps what is returned.
CallOnArrays(fname, flags, statements, params, returns, kinds) ==
    /\ Len(arrays) + Len(returns) <= MaxArrays
    /\ \E m \in {ExecuteAll([env |-> params,
                             stores |-> [b \in 1..Len(arrays) |-> arrays[b].stores]],
                            statements, 1)} :
        /\ arrays' = [b \in 1..Len(arrays) |->
                        [kind |-> arrays[b].kind, stores |-> m.stores[b]]]
                     \o [k \in 1..Len(returns) |->
                            [kind |-> kinds[k], stores |-> 0]]
        /\ ret' = [returned |-> [k \in 1..Len(returns) |-> m.env[returns[k]]],
                   stored |-> {b \in 1..Len(m.stores) : m.stores[b] > 0}]
    /\ fn' = fname
    /\ args' = [flags |-> flags, params |-> params]
    /\ UNCHANGED <<casedata, cov_args, cov_matrix, e_vals, e_vects, reffile,
                   csvfile, testfile, dataobj, identifiers>>

Arrays_getCovariance ==
    \E i_dataset \in Held({"dataset"}), corr_matrix, scale_by_nrows \in BOOLEAN,
       center_around_mean \in BOOLEAN :
        CallOnArrays("getCovariance",
                     <<corr_matrix, scale_by_nrows, center_around_mean>>,
                     ArraysOf_getCovariance(corr_matrix, scale_by_nrows,
                                            center_around_mean),
                     [i_dataset |-> i_dataset], <<"cov_matrix">>, <<"cov">>)

Arrays_getEigen ==
    \E i_array \in Held({"cov"}) :
        CallOnArrays("getEigen", <<>>, ArraysOf_getEigen, [i_array |-> i_array],
                     <<"eigenvalues", "eigenvectors">>, <<"evals", "evecs">>)

Arrays_sortEigen ==
    \E i_evals \in Held({"evals"}), i_evects \in Held({"evecs"}) :
        CallOnArrays("sortEigen", <<>>, ArraysOf_sortEigen,
                     [i_evals |-> i_evals, i_evects |-> i_evects],
                     <<"eigenvalues", "eigenvectors">>, <<"evals", "evecs">>)

Arrays_getPCScores ==
    \E i_dataset \in Held({"dataset"}), i_evals \in Held({"evals"}),
       i_evects \in Held({"evecs"}) :
        CallOnArrays("getPCScores", <<>>, ArraysOf_getPCScores,
                     [i_dataset |-> i_dataset, i_evals |-> i_evals,
                      i_evects |-> i_evects],
                     <<"pc_scores">>, <<"scores">>)

Arrays_getTotalVariance ==
    \E i_array \in Held({"dataset", "cov"}) :
        CallOnArrays("getTotalVariance", <<arrays[i_array].kind = "cov">>,
                     ArraysOf_getTotalVariance(arrays[i_array].kind = "cov"),
                     [i_array |-> i_array], <<>>, <<>>)

Arrays_getCumPropVar ==
    \E i_dataset \in Held({"dataset"}), i_evals \in Held({"evals"}),
       i_evects \in Held({"evecs"}) :
        CallOnArrays("getCumPropVar", <<>>, ArraysOf_getCumPropVar(FALSE),
                     [i_dataset |-> i_dataset, i_evals |-> i_evals,
                      i_evects |-> i_evects],
                     <<>>, <<>>)

Arrays_hMethod ==
    \E i_test_data, i_ref_data \in Held({"dataset"}) :
        CallOnArrays("hMethod", <<>>, ArraysOf_hMethod,
                     [i_test_data |-> i_test_data, i_ref_data |-> i_ref_data],
                     <<>>, <<>>)

\* The caller starts with one or two datasets.
ArraysInit ==
    /\ arrays \in {[b \in 1..n |-> [kind |-> "dataset", stores |-> 0]] : n \in 1..2}
    /\ casedata = <<>>
    /\ args = <<>>
    /\ cov_args = <<>>
    /\ cov_matrix = <<>>
    /\ e_vals = <<>>
    /\ e_vects = <<>>
    /\ fn = "load"
    /\ ret = <<>>
    /\ reffile = <<>>
    /\ csvfile = <<>>
    /\ testfile = <<>>
    /\ dataobj = <<>>
    /\ identifiers = <<>>

ArraysNext ==
    \/ Arrays_getCovariance
    \/ Arrays_getEigen
    \/ Arrays_sortEigen
    \/ Arrays_getPCScores
    \/ Arrays_getTotalVariance
    \/ Arrays_getCumPropVar
    \/ Arrays_hMethod

ArraysSpec == ArraysInit /\ [][ArraysNext]_vars

\* ------------------------------------------------- archived reference files
\* A reference file is kept and may be changed by hand before it is read
\* again.  The reader looks for marker texts only, so what matters of a change
\* is the order of the sections, whether one is missing, and the lines between
\* them.

\* The five sections of a file storeReferenceData wrote, in the order written.
Sections(lines) ==
    << SubSeq(lines, 1, 3), SubSeq(lines, 4, 6), SubSeq(lines, 7, 9),
       SubSeq(lines, 10, 12), SubSeq(lines, 13, Len(lines)) >>

\* The most lines added to a file in one place.
MaxOtherLines == 1

\* A line that holds none of the marker texts: the text the flag section may
\* hold, and a number.
OtherLines == {<< <<"True">> >> \o FormatRow(<<N(2)>>)}
OtherText == UNION {[1..n -> OtherLines] : n \in 0..MaxOtherLines}

\* The orders the five sections may be put in, and the orders that leave one
\* section out.
Orders == {o \in [1..5 -> 1..5] : \A i, j \in 1..5 : o[i] = o[j] => i = j}
Without(k) == [i \in 1..4 |-> IF i < k THEN i ELSE i + 1]

\* The lines of the file that holds the sections named by order, one after the
\* other, with the lines text after the first `at` of them.
RECURSIVE FileOf(_, _, _, _, _)
FileOf(sections, order, at, text, i) ==
    (IF at = i - 1 THEN text ELSE <<>>)
    \o (IF i > Len(order) THEN <<>>
        ELSE sections[order[i]] \o FileOf(sections, order, at, text, i + 1))

\* implementPCA(changed reffile, casedata file, generate_report=False): the
\* file read is reffile with its sections in another order, or with one
\* section missing, and with other lines in one place; c is what the reader
\* makes of it.
ReadChanged(order, at, text) ==
    \E lines \in {FileOf(Sections(reffile), order, at, text, 1)} :
    \E c \in {ReadSnapshot(lines)} :
        /\ reffile' = lines
        /\ args' = [input_type |-> args.input_type, dataset |-> casedata,
                    generate_report |-> FALSE, n_pcs |-> 10,
                    corr_matrix |-> args.corr_matrix,
                    order |-> order, at |-> at, text |-> text]
        /\ ret' = implementPCAWith(c, args.input_type, AsFloat(casedata),
                                   SerialNumbers(Len(casedata)), FALSE, 10)
        /\ csvfile' = ret'.csv
        /\ fn' = "implementPCA"
        /\ UNCHANGED <<casedata, cov_args, cov_matrix, e_vals, e_vects, others>>

Call_implementPCA_Reordered ==
    /\ fn = "storeReferenceData"
    /\ reffile # <<>>
    /\ \E order \in Orders, at \in 0..5, text \in OtherText :
        /\ text = <<>> => at = 0
        /\ ReadChanged(order, at, text)

Call_implementPCA_SectionMissing ==
    /\ fn = "storeReferenceData"
    /\ reffile # <<>>
    /\ \E k \in 1..5 : ReadChanged(Without(k), 0, <<>>)

\* The reference datasets of these sessions: the worked example and a table of
\* one column.
ArchivedDatasets == {<<<<1, 2>>, <<3, 4>>, <<5, 6>>>>, <<<<0>>, <<1>>>>}

FileInit ==
    /\ casedata \in ArchivedDatasets
    /\ args = [input_type |-> "ascii"]
    /\ cov_args = <<>>
    /\ cov_matrix = <<>>
    /\ e_vals = <<>>
    /\ e_vects = <<>>
    /\ fn = "load"
    /\ ret = <<>>
    /\ reffile = <<>>
    /\ csvfile = <<>>
    /\ NoOthers

FileNext ==
    \/ Call_storeReferenceData
    \/ Call_implementPCA_Reordered
    \/ Call_implementPCA_SectionMissing

FileSpec == FileInit /\ [][FileNext]_vars

\* ------------------------------------------------------------ properties
RECURSIVE ISum(_, _)
\* The sum of the integers v[i..Len(v)].
ISum(v, i) == IF i > Len(v) THEN 0 ELSE v[i] + ISum(v, i + 1)

IntColumn(D, j) == [i \in 1..Len(D) |-> D[i][j]]
IntColumnProduct(D, j, k) == [i \in 1..Len(D) |-> D[i][j] * D[i][k]]

DefaultCovArgs ==
    [corr_matrix |-> FALSE, scale_by_nrows |-> TRUE, center_around_mean |-> TRUE]

HasCovariance == cov_args # <<>>

\* The sample covariance of columns j and k of the integer table D of n >= 2
\* rows: sum_i (x_ij - mean_j)(x_ik - mean_k) / (n - 1), which is
\* (n * sum_i x_ij x_ik - sum_i x_ij * sum_i x_ik) / (n * (n - 1)).
SampleCovariance(D, j, k) ==
    Q(Len(D) * ISum(IntColumnProduct(D, j, k), 1)
        - ISum(IntColumn(D, j), 1) * ISum(IntColumn(D, k), 1),
      Len(D) * (Len(D) - 1))

C2_SingleRowOuterProduct ==
    (/\ HasCovariance
     /\ ~cov_args.scale_by_nrows
     /\ ~cov_args.center_around_mean
     /\ ~cov_args.corr_matrix
     /\ Len(casedata) = 1) =>
        /\ NRows(cov_matrix) = Len(casedata[1])
        /\ NCols(cov_matrix) = Len(casedata[1])
        /\ \A j, k \in 1..Len(casedata[1]) :
              cov_matrix[j][k] = N(casedata[1][j] * casedata[1][k])

C2_Witness ==
    /\ fn = "getCovariance"
    /\ ~cov_args.scale_by_nrows /\ ~cov_args.center_around_mean
    /\ ~cov_args.corr_matrix
    /\ casedata = <<<<1, 2, 3>>>>
    /\ cov_matrix = <<<<N(1), N(2), N(3)>>, <<N(2), N(4), N(6)>>,
                      <<N(3), N(6), N(9)>>>>

\* The transpose product of the columns of a, each divided by its population
\* standard deviation, scaled by n_rows - 1 when asked.
NormalizedProduct(a, scale_by_nrows) ==
    IF scale_by_nrows
    THEN DivScalar(Force1(Gram, Force1(Standardized, a)), N(NRows(a) - 1))
    ELSE Force1(Gram, Force1(Standardized, a))

\* C3: whenever corr_matrix is True the columns are divided by their
\* population standard deviation before the transpose product, for every
\* combination of the other two flags, center_around_mean=False included.
\* Stated for the datasets none of whose columns is constant.
C3_CorrelationIndependentOfCentering ==
    (/\ HasCovariance
     /\ cov_args.corr_matrix
     /\ \A j \in 1..Len(casedata[1]) : Std0(AsFloat(casedata))[j] # Zero) =>
        cov_matrix =
            NormalizedProduct(IF cov_args.center_around_mean
                              THEN Centered(AsFloat(casedata))
                              ELSE AsFloat(casedata),
                              cov_args.scale_by_nrows)

NonIncreasing(v) == \A i \in 1..(Len(v) - 1) : ~Less(v[i], v[i + 1])

\* C4: the eigenvalues returned by sortEigen, and so by getEigen, are
\* non-increasing: evals[i] >= evals[i+1] for every valid i.
C4_EigenvaluesNonIncreasing ==
    fn \in {"sortEigen", "getEigen"} => NonIncreasing(e_vals)

C4_Witness ==
    /\ fn = "sortEigen"
    /\ args = <<0, 1, -1>>
    /\ e_vals = <<N(1), N(0), N(-1)>>

\* C5: sortEigen permutes the (eigenvalue, eigenvector column) pairs: one
\* permutation pi of the column indices gives output eigenvalue j = input
\* eigenvalue pi(j) and output column j = input column pi(j); no pair is
\* dropped, duplicated or re-paired, also when eigenvalues repeat.
C5_SortIsPermutationOfPairs ==
    fn = "sortEigen" =>
        /\ Len(e_vals) = Len(args)
        /\ NRows(e_vects) = Len(args)
        /\ \E pi \in IndexArrays(Len(args)) :
              \A j \in 1..Len(args) :
                  /\ e_vals[j] = N(args[pi[j]])
                  /\ Len(e_vects[j]) = Len(args)
                  /\ \A i \in 1..Len(args) :
                        e_vects[i][j] = Tagged(Len(args))[i][pi[j]]

C5_Witness ==
    /\ fn = "sortEigen"
    /\ args = <<1, 0, 1>>
    /\ e_vals = <<N(1), N(1), N(0)>>

\* C6: for a dataset of at least 2 rows whose eigenvalues come from
\* getEigen(getCovariance(D)), getCumPropVar with n_pcs omitted is 1.0.  Stated
\* for the datasets of non-zero variance, where the proportion is a number.
C6_AllComponentsExplainEverything ==
    (/\ fn = "getCumPropVar"
     /\ args.n_pcs = None
     /\ cov_args = DefaultCovArgs
     /\ Len(casedata) >= 2
     /\ Trace(cov_matrix) # Zero) =>
        ret = One

IsSquare(a) == NRows(a) = NCols(a)
IsSymmetric(a) ==
    IsSquare(a) /\ \A i, j \in 1..NRows(a) : a[i][j] = a[j][i]

\* C7: getTotalVariance takes its input for a covariance matrix only when it
\* is square with a[i][j] = a[j][i] in all cells; any other input is a raw
\* dataset whose covariance is computed first; the result is the diagonal sum
\* of the covariance either way.
C7_TotalVarianceDetectsDatasets ==
    fn = "getTotalVariance" =>
        ret = IF IsSymmetric(AsFloat(casedata))
              THEN Trace(AsFloat(casedata))
              ELSE Trace(getCovariance(AsFloat(casedata), FALSE, TRUE, TRUE))

\* C8: getPCScores(dataset, evals, evecs, n_pcs=k) returns an n_units x k
\* matrix of the projections onto the first k eigenvector columns; with n_pcs
\* omitted, one column per eigenvector; column j of row r is the dot product
\* of the centered row r with eigenvector column j.
C8_ScoresUseFirstComponents ==
    fn = "getPCScores" =>
        LET k == IF args.n_pcs = None THEN NCols(e_vects) ELSE args.n_pcs[1]
            a == Centered(AsFloat(casedata))
        IN  /\ NRows(ret) = Len(casedata)
            /\ \A r \in 1..Len(casedata) :
                  /\ Len(ret[r]) = k
                  /\ \A j \in 1..k : ret[r][j] = Inner(a[r], Column(e_vects, j))

\* The snapshot's correlation flag is set: the body of the flag section of the
\* reference file, its eighth line, is the text True.
SnapshotFlagSet == reffile[8] = <<<<"True">>>>

\* The score the snapshot fitted on casedata gives the test row r on component
\* k: the sum over the columns j of the centered (and, in correlation form,
\* scaled) r[j] times cell (j,k) of the eigenvector matrix stored at the fit.
SnapshotScore(r, k, mean, std) ==
    SumSeq([j \in 1..Len(r) |->
        Mul(IF SnapshotFlagSet
            THEN Div(Sub(N(r[j]), mean[j]), std[j])
            ELSE Sub(N(r[j]), mean[j]),
            e_vects[j][k])])

\* The scores implementPCA gives the unit r when r is the whole test file; c is
\* what the reader makes of reffile.
ScoredAlone(c, r) ==
    implementPCAWith(c, args.input_type, AsFloat(<<r>>), SerialNumbers(1),
                     FALSE, 10).pcscores

\* C9: the scores implementPCA computes are, row by row, the test row minus
\* the snapshot's mean (divided by the snapshot's stddev when the snapshot's
\* correlation flag is set) times the snapshot's eigenvector matrix; the test
\* file's own statistics play no part, so a unit scores the same alone as
\* among any other units.
C9_ScoresUseSnapshotOnly ==
    (fn = "implementPCA" /\ ret.pcscores # <<>>) =>
        /\ NRows(ret.pcscores) = Len(args.dataset)
        /\ \A c \in {ReadSnapshot(reffile)} :
              \A r \in 1..Len(args.dataset) :
                  <<ret.pcscores[r]>> = ScoredAlone(c, args.dataset[r])
        /\ Len(args.dataset[1]) = Len(casedata[1]) =>
              \A mean \in {Mean0(AsFloat(casedata))}, std \in {Std0(AsFloat(casedata))} :
                  \A r \in 1..Len(args.dataset) :
                      /\ Len(ret.pcscores[r]) = NCols(e_vects)
                      /\ \A k \in 1..NCols(e_vects) :
                            ret.pcscores[r][k] =
                                SnapshotScore(args.dataset[r], k, mean, std)

C9_Witness ==
    /\ fn = "implementPCA"
    /\ ret.err = ""
    /\ SnapshotFlagSet
    /\ casedata = <<<<0, 0>>, <<1, 1>>>>
    /\ args.dataset = <<casedata[1], Probe(2)>>
    /\ ret.pcscores[1] # ret.pcscores[2]
    /\ csvfile # <<>>

\* C10: scoring a dataset against the snapshot fitted on that same dataset in
\* covariance form gives the score matrix getPCScores gives for the dataset
\* with the eigenvalues and eigenvectors of its own covariance.
C10_SelfConsistency ==
    (/\ fn = "implementPCA"
     /\ IsSupported(args.input_type)
     /\ ~cov_args.corr_matrix
     /\ args.dataset = casedata) =>
        ret.pcscores = getPCScores(AsFloat(casedata), e_vals, e_vects, None)

C10_Witness ==
    /\ fn = "implementPCA"
    /\ ret.err = ""
    /\ ~cov_args.corr_matrix
    /\ casedata = <<<<1, 2>>, <<3, 4>>, <<5, 6>>>>
    /\ args.dataset = casedata
    /\ ret.pcscores[1] # ret.pcscores[3]
    /\ csvfile # <<>>

\* A reference file has just been written.
Stored == fn = "storeReferenceData" /\ reffile # <<>>

\* C11: reading the file storeReferenceData wrote with the reader of
\* implementPCA gives back, without an error, the mean vector, the standard
\* deviations, the eigenvalues and the eigenvector matrix (same shape, same
\* cells) that storeReferenceData computed.
C11_SnapshotRoundTrip ==
    Stored =>
        \A c \in {ReadSnapshot(reffile)} :
            /\ c.err = ""
            /\ c.avgvec = Mean0(AsFloat(casedata))
            /\ c.stddev = Std0(AsFloat(casedata))
            /\ c.evals = e_vals
            /\ c.evecs = e_vects

C11_Witness ==
    /\ Stored
    /\ casedata = <<<<1, 2>>, <<3, 4>>, <<5, 6>>>>
    /\ e_vals = <<N(8), Zero>>
    /\ \E i, j \in 1..2 : e_vects[i][j] = {<<2, -1, 2>>}
    /\ ReadSnapshot(reffile).evecs = e_vects

\* The marker a line of a file consists of, "" for a line that is no marker.
Markers ==
    <<"BEGINAVGVECTOR", "ENDAVGVECTOR", "BEGINSTANDDEV", "ENDSTANDDEV",
      "ISCORRMATRIX", "ENDCORRMATRIX", "BEGINEVALS", "ENDEVALS",
      "BEGINEVECS", "ENDEVECS">>
MarkerOf(line) ==
    IF \E k \in 1..Len(Markers) : line = <<<<Markers[k]>>>>
    THEN line[1][1] ELSE ""

\* The lines of a file that open or close a section, in file order, each with
\* the number of lines since the marker before it.
RECURSIVE MarkerLines(_, _, _)
MarkerLines(lines, i, since) ==
    IF i > Len(lines) THEN <<>>
    ELSE IF MarkerOf(lines[i]) # ""
    THEN <<<<MarkerOf(lines[i]), since>>>> \o MarkerLines(lines, i + 1, 0)
    ELSE MarkerLines(lines, i + 1, since + 1)

\* C12: the file storeReferenceData writes holds the five sections in the
\* order average vector, standard deviations, correlation flag, eigenvalues,
\* eigenvectors, each between its two marker lines, nothing between a closing
\* marker and the next opening one, and the flag section's body is the text
\* True or the text False.
C12_SectionsInOrder ==
    Stored =>
        \A m \in {MarkerLines(reffile, 1, 0)} :
            /\ [k \in 1..Len(m) |-> m[k][1]] = Markers
            /\ \A k \in 1..Len(m) : (k % 2 = 1) => m[k][2] = 0
            /\ m[2][2] = 1 /\ m[4][2] = 1 /\ m[6][2] = 1 /\ m[8][2] = 1
            /\ m[10][2] = Len(casedata[1])
            /\ MarkerOf(reffile[Len(reffile)]) = "ENDEVECS"
            /\ reffile[8] \in {<<<<"True">>>>, <<<<"False">>>>}

\* The lines of the eigenvector section of the reference file, read as numbers.
EvecLines(p) == [k \in 1..p |-> ParseRow(reffile[13 + k])[2]]

\* v is an eigenvector of the covariance matrix with eigenvalue w.
IsEigenvector(v, w) ==
    \A av \in {Apply(cov_matrix, v)} :
        \A i \in 1..Len(v) : av[i] = Mul(w, v[i])

\* C13 as stated: line k of the eigenvector section holds the eigenvector
\* paired with the k-th eigenvalue, n_features numbers.
C13_OneEigenvectorPerLine ==
    Stored =>
        \A M \in {EvecLines(Len(casedata[1]))} :
            \A k \in 1..Len(M) :
                /\ Len(M[k]) = Len(casedata[1])
                /\ M[k] = Column(e_vects, k)

\* C13 as the code has it: line k of the eigenvector section holds row k of
\* the eigenvector matrix, that is component k of every eigenvector; it is
\* column j of the lines that is the eigenvector paired with the j-th
\* eigenvalue of the eigenvalue section.
C13_OneMatrixRowPerLine ==
    Stored =>
        \A M \in {EvecLines(Len(casedata[1]))} :
            \A w \in {ParseRow(reffile[11])[2]} :
                /\ Len(M) = Len(casedata[1])
                /\ Len(w) = Len(casedata[1])
                /\ \A k \in 1..Len(M) :
                      /\ Len(M[k]) = Len(casedata[1])
                      /\ M[k] = e_vects[k]
                      /\ IsEigenvector(Column(M, k), w[k])
                      /\ Inner(Column(M, k), Column(M, k)) = One

C13_Witness ==
    /\ Stored
    /\ casedata = <<<<1, 2>>, <<3, 4>>, <<5, 6>>>>
    /\ args.corr_matrix = PyBool(FALSE)
    /\ e_vects = <<<<{<<2, 1, 2>>}, {<<2, 1, 2>>}>>, <<{<<2, 1, 2>>}, {<<2, -1, 2>>}>>>>
    /\ EvecLines(2)[2] = <<{<<2, 1, 2>>}, {<<2, -1, 2>>}>>

\* The reference file read last is the stored one with all five sections, in
\* any order, and possibly other lines around them.
AllSectionsRead ==
    fn = "implementPCA" /\ "order" \in DOMAIN args /\ Len(args.order) = 5

\* The reference file read last is the stored one without section k.
SectionMissing(k) ==
    fn = "implementPCA" /\ "order" \in DOMAIN args /\ args.order = Without(k)

\* C14: when the file read lacks the average vector, the eigenvalues or the
\* eigenvectors, implementPCA ends with an error and has computed no score
\* and written no output.  (The claim asks for a dedicated error; this asks
\* for any.)
C14_MissingSectionIsRejected ==
    (SectionMissing(1) \/ SectionMissing(4) \/ SectionMissing(5)) =>
        (ret.err # "" /\ ret.pcscores = <<>> /\ csvfile = <<>>)

\* C15: whatever the order of the five sections and whatever lines without
\* marker text stand before, between or after them, the reader parses the
\* mean vector, the standard deviations, the flag text, the eigenvalues and
\* the eigenvectors of the fit, and the scores are those of the file as it
\* was stored.
C15_TolerantMarkerScan ==
    AllSectionsRead =>
        \A c \in {ReadSnapshot(reffile)} :
            /\ c.err = ""
            /\ c.avgvec = Mean0(AsFloat(casedata))
            /\ c.stddev = Std0(AsFloat(casedata))
            /\ c.corr_matrix = <<Str(args.corr_matrix)>>
            /\ c.evals = e_vals
            /\ c.evecs = e_vects
            /\ ret = implementPCA(
                        SnapshotLines(c.avgvec, c.stddev, args.corr_matrix,
                                      e_vals, e_vects),
                        args.input_type, AsFloat(casedata),
                        SerialNumbers(Len(casedata)), FALSE, 10)

\* The worked example's file read with its sections in the reverse order and
\* another line between two of them: scores are written.
C15_Witness ==
    /\ AllSectionsRead
    /\ casedata = <<<<1, 2>>, <<3, 4>>, <<5, 6>>>>
    /\ args.order = <<5, 4, 3, 2, 1>>
    /\ args.at = 2
    /\ args.text = << << <<"True">>, <<"2">> >> >>
    /\ ret.err = ""
    /\ Len(csvfile) = 4


\* C16: when the test table's column count differs from the length of the
\* stored mean vector (the column count of the reference dataset), scoring
\* ends with an error and there is no score matrix.  (The claim asks for a
\* shape-mismatch error; this asks for any.)
C16_WidthMismatchIsRejected ==
    (/\ fn = "implementPCA"
     /\ IsSupported(args.input_type)
     /\ Len(args.dataset[1]) # Len(casedata[1])) =>
        (ret.err # "" /\ ret.pcscores = <<>>)


\* C20: a call of implementPCA on a supported test file of the reference
\* file's width ends without error and has written [o_file].csv: the header
\* line, then one line for each unit holding the unit's serial number and its
\* scores, whether generate_report is set or not.
C20_ScoresFileWritten ==
    (/\ fn = "implementPCA"
     /\ IsSupported(args.input_type)
     /\ Len(args.dataset[1]) = Len(casedata[1])) =>
        /\ ret.err = ""
        /\ Len(csvfile) = Len(args.dataset) + 1
        /\ \A i \in 1..Len(args.dataset) :
            csvfile[i + 1] = <<SerialNumbers(Len(args.dataset))[i]>>
                             \o FormatRow(ret.pcscores[i])


\* The vector sum of the columns of a: component i is the sum over j of
\* a[i][j].
VectorSum(a) == [i \in 1..NRows(a) |-> SumSeq(a[i])]

\* hMethod got as far as the two total eigenvectors.
HasTotals == fn = "hMethod" /\ ret.total_test_evec # <<>>

\* C17: the total eigenvector of the test data is the vector sum of its
\* eigenvectors, each multiplied by its eigenvalue (component i is the sum over
\* j of e_vals[j] * e_vects[i][j]), divided by its L2 norm.
C17_TotalIsWeightedVectorSum ==
    HasTotals =>
        ret.total_test_evec =
            Normalized(VectorSum(WeightColumns(e_vects, e_vals, NCols(e_vects))))

\* C18: hMethod(X, X, "d") returns the angle 0, the angle whose cosine is 1,
\* for every dataset X.
C18_SameDataZeroAngle ==
    (fn = "hMethod" /\ args.i_ref_data = casedata /\ args.angle_units = "d") =>
        (ret.err = "" /\ ret.angle.cos = One)

\* The dot product of the two total eigenvectors handed to angleEvecs.
TotalsCompared ==
    HasTotals /\ Len(ret.total_ref_evec) = Len(ret.total_test_evec)
Cosine ==
    SumSeq([j \in 1..Len(ret.total_ref_evec) |->
                Mul(ret.total_ref_evec[j], ret.total_test_evec[j])])

\* C19 as claimed: degrees for "d", radians for "r", and an error with no
\* angle for every other value of angle_units.
C19_UnitsAsStated ==
    TotalsCompared =>
        /\ args.angle_units = "d" =>
            (ret.err = "" /\ ret.angle = [cos |-> Cosine, times |-> "180/pi"])
        /\ args.angle_units = "r" =>
            (ret.err = "" /\ ret.angle = [cos |-> Cosine, times |-> "1"])
        /\ args.angle_units \notin {"d", "r"} =>
            (ret.err # "" /\ ret.angle = <<>>)

\* C19: angleEvecs returns the arccosine of the dot product times 180/pi when
\* angle_units is "d" or "D", the arccosine itself when it is "r" or "R", and
\* raises an exception, returning no angle, for every other value.
C19_UnitsIgnoreCase ==
    TotalsCompared =>
        /\ args.angle_units \in {"d", "D"} =>
            (ret.err = "" /\ ret.angle = [cos |-> Cosine, times |-> "180/pi"])
        /\ args.angle_units \in {"r", "R"} =>
            (ret.err = "" /\ ret.angle = [cos |-> Cosine, times |-> "1"])
        /\ args.angle_units \notin {"d", "D", "r", "R"} =>
            (ret.err = "Exception" /\ ret.angle = <<>>)

\* Two units at right angles compared with the second of them, in "D": the
\* angle is that of cosine sqrt(2)/2, in degrees.
C19_Witness ==
    /\ TotalsCompared
    /\ casedata = <<<<1, 0>>, <<0, 1>>>>
    /\ args.i_ref_data = <<<<0, 1>>>>
    /\ args.angle_units = "D"
    /\ ret.err = ""
    /\ ret.angle = [cos |-> {<<2, 1, 2>>}, times |-> "180/pi"]


\* The column of the input that sortEigen put at position j of its output: the
\* columns of Tagged name their own position.
SourceColumn(j) == CHOOSE c \in 1..Len(args) : e_vects[1][j] = N(10 + c)

\* C21: among equal eigenvalues sortEigen keeps the order of the input: of two
\* output positions with the same eigenvalue, the earlier holds the column that
\* came earlier in the input.
C21_TiesKeepSolverOrder ==
    fn = "sortEigen" =>
        \A j, k \in 1..Len(e_vals) :
            (j < k /\ e_vals[j] = e_vals[k]) => SourceColumn(j) < SourceColumn(k)


\* C22: no call of the numerical core writes into an array of its caller, and
\* what a call returns is memory the caller did not hold before.
C22_InputsUntouched ==
    /\ \A b \in 1..Len(arrays) : arrays[b].stores = 0
    /\ (arrays # <<>> /\ fn # "load") =>
        \A k \in 1..Len(ret.returned) :
            /\ ret.returned[k] > Len(arrays) - Len(ret.returned)
            /\ \A j \in 1..Len(ret.returned) : j # k => ret.returned[j] # ret.returned[k]

\* hMethod on a dataset after the covariance of that dataset was taken without
\* centring: hMethod wrote into arrays, none of them the caller's.
C22_Witness ==
    /\ fn = "hMethod"
    /\ Len(arrays) = 3
    /\ arrays[3].kind = "cov"
    /\ ret.stored # {}
    /\ \A b \in ret.stored : b > Len(arrays)


\* C28: implementPCA divides by the stored standard deviation exactly when
\* storeReferenceData fitted on the correlation matrix: the scores are those
\* of the correlation form when cov_args.corr_matrix is set and those of the
\* covariance form when it is not.
C28_FlagAgreesWithFit ==
    (fn = "implementPCA" /\ ret.pcscores # <<>>) =>
        \A c \in {ReadSnapshot(reffile)} :
            ret.pcscores =
                (IF cov_args.corr_matrix
                 THEN ScoreCorrelation(c, AsFloat(args.dataset))
                 ELSE ScoreCovariance(c, AsFloat(args.dataset))).pcscores


\* ------------------------------------------------- sigqc_primitives.py
\* A name is the sequence of its characters; the empty name is <<>>.  An
\* identifier is a record of the four fields of SigQCTestCaseID, a group the
\* sequence of the identifiers it holds.
MaxIds == 2

\* a in b, for Python strings.
StrIn(a, b) == \E k \in 0..(Len(b) - Len(a)) : SubSeq(b, k + 1, k + Len(a)) = a

SigQCTestCaseID(i_productname, i_testname, i_casename, i_exact) ==
    [productname |-> i_productname, testname |-> i_testname,
     casename |-> i_casename, exact |-> i_exact]

Eq(self, other) ==
    /\ self.productname = other.productname
    /\ self.testname = other.testname
    /\ self.casename = other.casename
    /\ self.exact = other.exact

IsEmptyID(self) ==
    ~(self.productname # <<>> \/ self.testname # <<>> \/ self.casename # <<>>)

IsExact(self) ==
    IF self.productname # <<>> /\ self.testname # <<>> /\ self.casename # <<>>
    THEN self.exact
    ELSE FALSE

\* The shorter of two names is looked for in the longer one; of two names of
\* one length, the first in the second.
ShorterIn(a, b) == IF Len(a) > Len(b) THEN StrIn(b, a) ELSE StrIn(a, b)

\* IsMatch with the names of two inexact identifiers compared one way only.
IsMatch_OneWay(self, i_identifier) ==
    IF IsExact(self) /\ IsExact(i_identifier) THEN Eq(self, i_identifier)
    ELSE IF IsExact(self) /\ ~IsExact(i_identifier) THEN
        /\ StrIn(i_identifier.productname, self.productname)
        /\ StrIn(i_identifier.testname, self.testname)
        /\ StrIn(i_identifier.casename, self.casename)
    ELSE
        /\ StrIn(self.productname, i_identifier.productname)
        /\ StrIn(self.testname, i_identifier.testname)
        /\ StrIn(self.casename, i_identifier.casename)

IsMatch(self, i_identifier) ==
    IF IsExact(self) /\ IsExact(i_identifier) THEN Eq(self, i_identifier)
    ELSE IF IsExact(self) /\ ~IsExact(i_identifier) THEN
        /\ i_identifier.productname # <<>> =>
                StrIn(i_identifier.productname, self.productname)
        /\ i_identifier.testname # <<>> =>
                StrIn(i_identifier.testname, self.testname)
        /\ i_identifier.casename # <<>> =>
                StrIn(i_identifier.casename, self.casename)
    ELSE IF ~IsExact(self) /\ IsExact(i_identifier) THEN
        /\ self.productname # <<>> =>
                StrIn(self.productname, i_identifier.productname)
        /\ self.testname # <<>> =>
                StrIn(self.testname, i_identifier.testname)
        /\ self.casename # <<>> =>
                StrIn(self.casename, i_identifier.casename)
    ELSE
        /\ ShorterIn(self.productname, i_identifier.productname)
        /\ ShorterIn(self.testname, i_identifier.testname)
        /\ ShorterIn(self.casename, i_identifier.casename)

\* i_string.split("."): the pieces between the periods.
RECURSIVE SplitFrom(_, _, _)
SplitFrom(i_string, k, piece) ==
    IF k > Len(i_string) THEN <<piece>>
    ELSE IF i_string[k] = "." THEN <<piece>> \o SplitFrom(i_string, k + 1, <<>>)
    ELSE SplitFrom(i_string, k + 1, Append(piece, i_string[k]))

Split(i_string) == SplitFrom(i_string, 1, <<>>)

Starred(name) == IF name = <<"*">> THEN <<>> ELSE name

Parse(self, i_string) ==
    LET text == Split(i_string)
        inexact == text[3] # <<>> /\ text[3][Len(text[3])] = "~"
        casename == IF inexact THEN SubSeq(text[3], 1, Len(text[3]) - 1) ELSE text[3]
    IN  IF Len(text) >= 3
        THEN SigQCTestCaseID(Starred(text[1]), Starred(text[2]), Starred(casename),
                             ~inexact)
        ELSE self

NewID == SigQCTestCaseID(<<>>, <<>>, <<>>, TRUE)

\* The index (from 0) of the first identifier equal to i_identifier, or -1.
Contains(self, i_identifier) ==
    IF \E i \in 1..Len(self) : Eq(self[i], i_identifier)
    THEN (CHOOSE i \in 1..Len(self) :
            /\ Eq(self[i], i_identifier)
            /\ \A k \in 1..(i - 1) : ~Eq(self[k], i_identifier)) - 1
    ELSE -1

\* The branch of FindMatchingIDsOf for a string "product.test.case".
FindMatchingIDsOf(self, i_string) ==
    SelectSeq(self, LAMBDA id : IsMatch(id, Parse(NewID, i_string)))

\* The loop shared by the three GetUnique...Names: a name is appended unless
\* it is in the list already.
RECURSIVE UniqueFrom(_, _, _)
UniqueFrom(names, i, found) ==
    IF i > Len(names) THEN found
    ELSE UniqueFrom(names, i + 1,
                    IF \E k \in 1..Len(found) : found[k] = names[i]
                    THEN found ELSE Append(found, names[i]))

GetUniqueProductNames(self) ==
    UniqueFrom([i \in 1..Len(self) |-> self[i].productname], 1, <<>>)
GetUniqueTestNames(self) ==
    UniqueFrom([i \in 1..Len(self) |-> self[i].testname], 1, <<>>)
GetUniqueCaseNames(self) ==
    UniqueFrom([i \in 1..Len(self) |-> self[i].casename], 1, <<>>)

CountUniqueProductNames(self) == Len(GetUniqueProductNames(self))
CountUniqueTestNames(self) == Len(GetUniqueTestNames(self))
CountUniqueCaseNames(self) == Len(GetUniqueCaseNames(self))

ListGroupsByProduct(self) ==
    LET productnames == GetUniqueProductNames(self)
    IN  [i \in 1..Len(productnames) |->
            FindMatchingIDsOf(self, productnames[i] \o <<".", ".">>)]
ListGroupsByTest(self) ==
    LET testnames == GetUniqueTestNames(self)
    IN  [i \in 1..Len(testnames) |->
            FindMatchingIDsOf(self, <<".">> \o testnames[i] \o <<".">>)]
ListGroupsByCase(self) ==
    LET casenames == GetUniqueCaseNames(self)
    IN  [i \in 1..Len(casenames) |->
            FindMatchingIDsOf(self, <<".", ".">> \o casenames[i])]

\* The matrix ConfigureByTest leaves in _groups, with the lists it was built
\* from.  'if productgroup.Contains(...)' takes the index as a truth value:
\* every index but 0 counts as true, -1 included.
ConfigureByTest(i_group, i_product, i_casename) ==
    LET productgroup == FindMatchingIDsOf(i_group,
                                          i_product \o <<".", "*", ".">> \o i_casename)
        testnames == GetUniqueTestNames(productgroup)
        casenames == GetUniqueCaseNames(productgroup)
    IN  [productgroup |-> productgroup, testnames |-> testnames,
         casenames |-> casenames,
         groups |-> [i \in 1..Len(testnames) |-> [j \in 1..Len(casenames) |->
            IF Contains(productgroup,
                        SigQCTestCaseID(i_product, testnames[i], casenames[j], TRUE)) # 0
            THEN <<SigQCTestCaseID(i_product, testnames[i], casenames[j], TRUE)>>
            ELSE <<>>]]]

\* ---- a session on one test case group
ProductNames == {<<>>, <<"X">>, <<"X", "5">>}
TestNames == {<<>>, <<"P">>, <<"P", "1">>}
CaseNames == {<<>>, <<"A">>}

OnGroup(fname, i_args, result) ==
    /\ fn' = fname
    /\ args' = i_args
    /\ ret' = result
    /\ UNCHANGED <<casedata, cov_args, cov_matrix, e_vals, e_vects, reffile,
                   csvfile, arrays, testfile, dataobj>>

Call_AppendByNames ==
    /\ Len(identifiers) < MaxIds
    /\ \E i_productname \in ProductNames, i_testname \in TestNames,
          i_casename \in CaseNames, i_exact \in BOOLEAN :
        identifiers' = Append(identifiers,
            SigQCTestCaseID(i_productname, i_testname, i_casename, i_exact))
    /\ OnGroup("AppendByNames", <<>>, <<>>)

Call_Clear ==
    /\ identifiers # <<>>
    /\ identifiers' = <<>>
    /\ OnGroup("Clear", <<>>, <<>>)

Call_IsMatch ==
    /\ \E i, j \in 1..Len(identifiers) :
        OnGroup("IsMatch", <<identifiers[i], identifiers[j]>>,
                IsMatch(identifiers[i], identifiers[j]))
    /\ UNCHANGED identifiers

Call_GetUniqueNames ==
    /\ \/ OnGroup("GetUniqueProductNames", <<>>, GetUniqueProductNames(identifiers))
       \/ OnGroup("GetUniqueTestNames", <<>>, GetUniqueTestNames(identifiers))
       \/ OnGroup("GetUniqueCaseNames", <<>>, GetUniqueCaseNames(identifiers))
    /\ UNCHANGED identifiers

Call_CountUniqueNames ==
    /\ \/ OnGroup("CountUniqueProductNames", <<>>, CountUniqueProductNames(identifiers))
       \/ OnGroup("CountUniqueTestNames", <<>>, CountUniqueTestNames(identifiers))
       \/ OnGroup("CountUniqueCaseNames", <<>>, CountUniqueCaseNames(identifiers))
    /\ UNCHANGED identifiers

Call_ListGroups ==
    /\ \/ OnGroup("ListGroupsByProduct", <<>>, ListGroupsByProduct(identifiers))
       \/ OnGroup("ListGroupsByTest", <<>>, ListGroupsByTest(identifiers))
       \/ OnGroup("ListGroupsByCase", <<>>, ListGroupsByCase(identifiers))
    /\ UNCHANGED identifiers

Call_ConfigureByTest ==
    /\ \E i_product \in ProductNames, i_casename \in CaseNames :
        OnGroup("ConfigureByTest", <<i_product, i_casename>>,
                ConfigureByTest(identifiers, i_product, i_casename))
    /\ UNCHANGED identifiers

GroupInit ==
    /\ identifiers = <<>>
    /\ fn = "SigQCTestCaseGroup"
    /\ args = <<>>
    /\ ret = <<>>
    /\ casedata = <<>>
    /\ cov_args = <<>>
    /\ cov_matrix = <<>>
    /\ e_vals = <<>>
    /\ e_vects = <<>>
    /\ reffile = <<>>
    /\ csvfile = <<>>
    /\ arrays = <<>>
    /\ testfile = <<>>
    /\ dataobj = <<>>

GroupNext ==
    \/ Call_AppendByNames
    \/ Call_Clear
    \/ Call_IsMatch
    \/ Call_GetUniqueNames
    \/ Call_CountUniqueNames
    \/ Call_ListGroups
    \/ Call_ConfigureByTest

GroupSpec == GroupInit /\ [][GroupNext]_vars

\* ---- properties of the identifiers and groups

\* C30: IsMatch gives the same answer whichever of the two identifiers it is
\* called on.
C30_IsMatchSymmetric ==
    fn = "IsMatch" => ret = IsMatch(args[2], args[1])

\* Two inexact identifiers whose product names differ in length, one
\* containing the other, were compared and match.
C30_Witness ==
    /\ fn = "IsMatch"
    /\ ~IsExact(args[1]) /\ ~IsExact(args[2])
    /\ Len(args[1].productname) < Len(args[2].productname)
    /\ args[1].productname # <<>>
    /\ ret

\* The name of the identifiers a ListGroupsBy... call groups by.
GroupedName(id) ==
    IF fn = "ListGroupsByProduct" THEN id.productname
    ELSE IF fn = "ListGroupsByTest" THEN id.testname
    ELSE id.casename

\* C24: every group of ListGroupsByProduct / ByTest / ByCase holds exactly the
\* identifiers of the source group that carry one name, and every identifier
\* of the source is in exactly one of the groups.
C24_GroupsPartitionByName ==
    fn \in {"ListGroupsByProduct", "ListGroupsByTest", "ListGroupsByCase"} =>
        /\ \A g \in 1..Len(ret) :
            \E i \in 1..Len(identifiers) :
                ret[g] = SelectSeq(identifiers,
                    LAMBDA id : GroupedName(id) = GroupedName(identifiers[i]))
        /\ \A i \in 1..Len(identifiers) :
            \E g \in 1..Len(ret) :
                /\ \E k \in 1..Len(ret[g]) : ret[g][k] = identifiers[i]
                /\ \A h \in 1..Len(ret) :
                    (\E k \in 1..Len(ret[h]) : ret[h][k] = identifiers[i]) =>
                        GroupedName(ret[h][1]) = GroupedName(ret[g][1])

\* The names of the identifiers a GetUnique...Names / CountUnique...Names call
\* looks at.
NamesLookedAt ==
    [i \in 1..Len(identifiers) |->
        IF fn \in {"GetUniqueProductNames", "CountUniqueProductNames"}
        THEN identifiers[i].productname
        ELSE IF fn \in {"GetUniqueTestNames", "CountUniqueTestNames"}
        THEN identifiers[i].testname
        ELSE identifiers[i].casename]

FirstAt(names, name) == CHOOSE i \in 1..Len(names) :
    names[i] = name /\ \A k \in 1..(i - 1) : names[k] # name

\* C25: the GetUnique...Names lists hold every non-empty name once, in the
\* order of first occurrence, and no empty name; the CountUnique...Names
\* counts are the numbers of distinct non-empty names.
C25_UniqueNonEmptyNames ==
    /\ fn \in {"GetUniqueProductNames", "GetUniqueTestNames", "GetUniqueCaseNames"} =>
        /\ \A k \in 1..Len(ret) : ret[k] # <<>>
        /\ {ret[k] : k \in 1..Len(ret)} =
                {NamesLookedAt[i] : i \in 1..Len(identifiers)} \ {<<>>}
        /\ \A j, k \in 1..Len(ret) :
            j < k => FirstAt(NamesLookedAt, ret[j]) < FirstAt(NamesLookedAt, ret[k])
    /\ fn \in {"CountUniqueProductNames", "CountUniqueTestNames",
               "CountUniqueCaseNames"} =>
        ret = Cardinality({NamesLookedAt[i] : i \in 1..Len(identifiers)} \ {<<>>})

\* C26: after ConfigureByTest the matrix has a row for every unique test name
\* and a column for every unique case name of the matching subgroup, and the
\* cell (i, j) holds the identifier (product, testnames[i], casenames[j]) when
\* the subgroup contains it and is an empty group when it does not.
C26_CellsHoldContainedIDs ==
    fn = "ConfigureByTest" =>
        /\ Len(ret.groups) = Len(GetUniqueTestNames(ret.productgroup))
        /\ \A i \in 1..Len(ret.groups) :
            /\ Len(ret.groups[i]) = Len(GetUniqueCaseNames(ret.productgroup))
            /\ \A j \in 1..Len(ret.groups[i]) :
                \A id \in {SigQCTestCaseID(args[1], ret.testnames[i],
                                           ret.casenames[j], TRUE)} :
                    ret.groups[i][j] =
                        IF \E k \in 1..Len(ret.productgroup) :
                                Eq(ret.productgroup[k], id)
                        THEN <<id>> ELSE <<>>


\* --------------------------------------------- sigqc/sigqc_asciitestcase.py
\* csv.reader gives the file as rows, a row being the list of its cells (a
\* blank line is the empty list); every reader below takes rows from the one
\* iterator with next().  A reader is given the number of rows taken so far
\* and returns the number taken when it is done, with what it read, or the
\* exception it raised.
MaxCases == 2
MaxUnits == 2
MaxReads == 2

InList(cell, row) == \E k \in 1..Len(row) : row[k] = cell

\* ''.join(row)
RECURSIVE Join(_)
Join(row) == IF row = <<>> THEN "" ELSE Head(row) \o Join(Tail(row))

Numerals == <<"0", "1", "2", "3", "4", "5", "6", "7", "8", "9">>
IsNumeral(cell) == InList(cell, Numerals)
\* int(cell) and float(cell) of a one-digit cell.
ToNumber(cell) == (CHOOSE n \in 1..Len(Numerals) : Numerals[n] = cell) - 1

\* SigQCAsciiHeader.read: nine rows and the row after them, whatever they are.
HeaderRead(rows, at) ==
    IF at + 10 > Len(rows) THEN [raised |-> "StopIteration", at |-> Len(rows)]
    ELSE IF ~IsNumeral(Join(rows[at + 6])) THEN [raised |-> "ValueError", at |-> at + 6]
    ELSE [raised |-> "", at |-> at + 10,
          value |-> [testcase |-> SigQCTestCaseID(Join(rows[at + 1]), Join(rows[at + 2]),
                                                  Join(rows[at + 3]), TRUE),
                     datasource |-> Join(rows[at + 4]),
                     functiontype |-> Join(rows[at + 5]),
                     elements |-> ToNumber(Join(rows[at + 6])),
                     xunits |-> Join(rows[at + 8]),
                     yunits |-> Join(rows[at + 9])]]

\* The rows of units from row k on, up to the first row holding ENDDATA.
RECURSIVE UnitRows(_, _, _)
UnitRows(rows, k, found) ==
    IF k > Len(rows) THEN [raised |-> "StopIteration", at |-> Len(rows)]
    ELSE IF InList("ENDDATA", rows[k]) THEN [raised |-> "", at |-> k, units |-> found]
    ELSE IF Len(rows[k]) < 2 THEN [raised |-> "IndexError", at |-> k]
    ELSE UnitRows(rows, k + 1, Append(found, rows[k]))

\* SigQCAsciiMatrix.read: the row of domain values, the rows of units up to
\* ENDDATA, and one row more.
MatrixRead_ToEndMarker(i_header, rows, at) ==
    IF at + 2 > Len(rows) THEN [raised |-> "StopIteration", at |-> Len(rows)]
    ELSE (LET r == UnitRows(rows, at + 2, <<>>)
          IN  IF r.raised # "" THEN r
              ELSE [raised |-> "", at |-> r.at,
                    value |-> [header |-> i_header,
                               serialnumbers |-> [u \in 1..Len(r.units) |-> r.units[u][1]],
                               timestamps |-> [u \in 1..Len(r.units) |-> r.units[u][2]],
                               xvalues |-> SubSeq(rows[at + 1], 3, Len(rows[at + 1])),
                               yvalues |-> [u \in 1..Len(r.units) |->
                                    SubSeq(r.units[u], 3, Len(r.units[u]))]]])

MatrixRead(i_header, rows, at) ==
    LET r == MatrixRead_ToEndMarker(i_header, rows, at)
    IN  IF r.raised # "" THEN r
        ELSE IF r.at + 1 > Len(rows) THEN [raised |-> "StopIteration", at |-> Len(rows)]
        ELSE [r EXCEPT !.at = r.at + 1]

RECURSIVE SkipToEndLimits(_, _)
SkipToEndLimits(rows, k) ==
    IF InList("ENDLIMITS", rows[k]) THEN [raised |-> "", at |-> k]
    ELSE IF k + 1 > Len(rows) THEN [raised |-> "StopIteration", at |-> Len(rows)]
    ELSE SkipToEndLimits(rows, k + 1)

\* SigQCAsciiLimits.read: three rows, then on to the row holding ENDLIMITS.
LimitsRead(rows, at) ==
    IF at + 3 > Len(rows) THEN [raised |-> "StopIteration", at |-> Len(rows)]
    ELSE LET r == SkipToEndLimits(rows, at + 3)
         IN  IF r.raised # "" THEN r
             ELSE [raised |-> "", at |-> r.at,
                   value |-> [domains |-> <<rows[at + 1]>>,
                              lowerlimits |-> <<rows[at + 2]>>,
                              upperlimits |-> <<rows[at + 3]>>]]

\* The loop of SigQCAsciiTestCaseFile.read from row number 'at' + 1 on;
\* 'header' is the header read last (<<>> for None).
RECURSIVE FileRows(_, _, _, _)
FileRows(self, rows, at, header) ==
    IF at + 1 > Len(rows) THEN self
    ELSE IF InList("BEGINHEADER", rows[at + 1]) THEN
        LET r == HeaderRead(rows, at + 1)
        IN  IF r.raised # "" THEN [self EXCEPT !.raised = r.raised]
            ELSE FileRows([self EXCEPT !.headerlist = Append(@, r.value)],
                          rows, r.at, r.value)
    ELSE IF InList("BEGINDATA", rows[at + 1]) THEN
        LET r == MatrixRead(header, rows, at + 1)
        IN  IF r.raised # "" THEN [self EXCEPT !.raised = r.raised]
            ELSE FileRows([self EXCEPT !.casedata = Append(@, r.value)],
                          rows, r.at, header)
    ELSE IF InList("BEGINLIMITS", rows[at + 1]) THEN
        LET r == LimitsRead(rows, at + 1)
        IN  IF r.raised # "" THEN [self EXCEPT !.raised = r.raised]
            ELSE FileRows([self EXCEPT !.limits = Append(@, r.value)],
                          rows, r.at, header)
    ELSE FileRows(self, rows, at + 1, header)

\* read() appends to the lists the object holds.  'raised' is the exception
\* the last read() ended with and 'reads' the number of read() calls so far;
\* the two belong to the session, not to the object.
FileRead(self, rows) ==
    FileRows([self EXCEPT !.dataread = TRUE, !.raised = "", !.reads = @ + 1],
             rows, 0, <<>>)

NewFile(i_filename) ==
    [filename |-> i_filename, casedata |-> <<>>, headerlist |-> <<>>,
     limits |-> <<>>, dataread |-> FALSE, raised |-> "", reads |-> 0]

getTestCaseCount(self) == Len(self.casedata)

\* np.array(yvalues, dtype=float) of the matrix at i_index.
IsFloatTable(yvalues) ==
    /\ \A u \in 1..Len(yvalues) : Len(yvalues[u]) = Len(yvalues[1])
    /\ \A u \in 1..Len(yvalues) : \A j \in 1..Len(yvalues[u]) : IsNumeral(yvalues[u][j])
FloatTable(yvalues) ==
    [u \in 1..Len(yvalues) |-> [j \in 1..Len(yvalues[u]) |-> ToNumber(yvalues[u][j])]]

\* limits[k,:] = row, for a matrix of 'columns' columns.
IsLimitsRow(row, columns) ==
    /\ Len(row) \in {1, columns}
    /\ \A j \in 1..Len(row) : IsNumeral(row[j])
LimitsRow(row, columns) ==
    [j \in 1..columns |-> ToNumber(row[IF Len(row) = 1 THEN 1 ELSE j])]

\* The names getAllTestCases gives the columns of one matrix.
DomainNames(matrix, columns) ==
    IF columns > 1
    THEN [j \in 1..columns |-> matrix.header.testcase.casename \o " " \o matrix.xvalues[j]]
    ELSE <<matrix.header.testcase.casename \o " " \o matrix.xvalues[1]>>

Failed(error) ==
    [err |-> error, serialnumbers |-> <<>>, alldomainnames |-> <<>>,
     allcasedata |-> <<>>, alllimits |-> <<>>]

\* The exception, if any, that stops getAllTestCases at matrix i, 'rows'
\* being the number of rows stacked so far: the matrix has to be a table of
\* numbers, with a header and a domain value for each column it is named by,
\* of as many rows as the ones before it, and with limits rows that fit.
TableError(matrix, i) ==
    IF matrix.yvalues = <<>> THEN (IF i = 1 THEN "IndexError" ELSE "ValueError")
    ELSE IF ~IsFloatTable(matrix.yvalues) THEN "ValueError"
    ELSE ""

NamesError(matrix) ==
    IF matrix.header = <<>> THEN "AttributeError"
    ELSE IF Len(matrix.xvalues) < (IF Len(matrix.yvalues[1]) > 1
                                   THEN Len(matrix.yvalues[1]) ELSE 1)
    THEN "IndexError"
    ELSE ""

\* 'alllimits == None' on an array is taken element by element by the numpy
\* that compares so, and 'not' of an array of 2 x n elements raises.
LimitsError(self, i, elementwise) ==
    IF self.limits = <<>> THEN ""
    ELSE IF i > 1 /\ elementwise THEN "ValueError"
    ELSE IF i > Len(self.limits) THEN "IndexError"
    ELSE IF ~(/\ IsLimitsRow(self.limits[i].lowerlimits[1], Len(self.casedata[i].yvalues[1]))
              /\ IsLimitsRow(self.limits[i].upperlimits[1], Len(self.casedata[i].yvalues[1])))
    THEN "ValueError"
    ELSE ""

FirstError(errors) ==
    IF \E k \in 1..Len(errors) : errors[k] # ""
    THEN errors[CHOOSE k \in 1..Len(errors) :
                    errors[k] # "" /\ \A j \in 1..(k - 1) : errors[j] = ""]
    ELSE ""

CaseError(self, i, rows, elementwise) ==
    LET matrix == self.casedata[i]
    IN  IF TableError(matrix, i) # "" THEN TableError(matrix, i)
        ELSE IF i = 1
        THEN FirstError(<<LimitsError(self, i, elementwise), NamesError(matrix)>>)
        ELSE FirstError(<<NamesError(matrix),
                          IF Len(matrix.yvalues) # rows THEN "ValueError" ELSE "",
                          LimitsError(self, i, elementwise)>>)

RECURSIVE StackFrom(_, _, _, _)
StackFrom(self, i, sofar, elementwise) ==
    IF i > Len(self.casedata) THEN sofar
    ELSE LET matrix == self.casedata[i]
             error == CaseError(self, i, Len(sofar.allcasedata), elementwise)
             columns == Len(matrix.yvalues[1])
         IN  IF error # "" THEN Failed(error)
             ELSE StackFrom(self, i + 1,
                    [err |-> "",
                     serialnumbers |-> IF i > 1 THEN matrix.serialnumbers
                                       ELSE sofar.serialnumbers,
                     alldomainnames |-> sofar.alldomainnames \o DomainNames(matrix, columns),
                     allcasedata |-> IF i = 1 THEN FloatTable(matrix.yvalues)
                                     ELSE [u \in 1..Len(sofar.allcasedata) |->
                                            sofar.allcasedata[u]
                                            \o FloatTable(matrix.yvalues)[u]],
                     alllimits |-> IF self.limits = <<>> THEN <<>>
                                   ELSE IF i = 1
                                   THEN <<LimitsRow(self.limits[i].lowerlimits[1], columns),
                                          LimitsRow(self.limits[i].upperlimits[1], columns)>>
                                   ELSE <<sofar.alllimits[1]
                                          \o LimitsRow(self.limits[i].lowerlimits[1], columns),
                                          sofar.alllimits[2]
                                          \o LimitsRow(self.limits[i].upperlimits[1], columns)>>],
                    elementwise)

\* getAllTestCases; 'serialnumbers' is bound in the loop over the matrices
\* after the first one only.
getAllTestCases(self, elementwise) ==
    IF self.casedata = <<>> THEN Failed("IndexError")
    ELSE LET all == StackFrom(self, 1,
                        [err |-> "", serialnumbers |-> <<>>, alldomainnames |-> <<>>,
                         allcasedata |-> <<>>, alllimits |-> <<>>], elementwise)
         IN  IF all.err # "" THEN all
             ELSE IF Len(self.casedata) = 1 THEN Failed("UnboundLocalError")
             ELSE all


\* ---- a session on one ASCII test case file
MaxDomains == 2

SerialNames == <<"SN1", "SN2", "SN3">>
CaseLabels == <<"RL", "RR", "FL">>

HeaderSection(c) ==
    << <<"BEGINHEADER">>, <<"X15">>, <<"PHASE1">>, <<CaseLabels[c]>>, <<"Mic">>,
       <<"Spectrum">>, <<"2">>, <<"0">>, <<"Hz">>, <<"dB">>, <<"ENDHEADER">> >>

DataSection(units, domains) ==
    << <<"BEGINDATA">>, <<"Serial", "Time">> \o [j \in 1..domains |-> Numerals[j + 1]] >>
    \o [u \in 1..units |->
            <<SerialNames[u], "T">> \o [j \in 1..domains |-> Numerals[u + j]]]
    \o << <<"ENDDATA">> >>

LimitsSection(domains) ==
    << <<"BEGINLIMITS">>, [j \in 1..domains |-> Numerals[j + 1]],
       [j \in 1..domains |-> "0"], [j \in 1..domains |-> "9"], <<"ENDLIMITS">> >>

\* The exported file of 'cases' test cases: header, data and, when the export
\* has them, limits of each; 'separated' files have a blank line after ENDDATA.
RECURSIVE CasesFrom(_, _, _, _, _, _)
CasesFrom(c, cases, units, domains, separated, limits) ==
    IF c > cases THEN <<>>
    ELSE HeaderSection(c) \o DataSection(units, domains)
         \o (IF separated THEN << <<>> >> ELSE <<>>)
         \o (IF limits THEN LimitsSection(domains) ELSE <<>>)
         \o CasesFrom(c + 1, cases, units, domains, separated, limits)

TestCaseFiles ==
    {CasesFrom(1, cases, units, domains, separated, limits) :
        cases \in 1..MaxCases, units \in 1..MaxUnits, domains \in 1..MaxDomains,
        separated \in BOOLEAN, limits \in BOOLEAN}

OnFile(fname, result) ==
    /\ fn' = fname
    /\ args' = <<>>
    /\ ret' = result
    /\ UNCHANGED <<casedata, cov_args, cov_matrix, e_vals, e_vects, reffile,
                   csvfile, arrays, testfile, identifiers>>

\* SigQCAsciiTestCaseFile(i_filename): with a file name the constructor reads
\* the file, and an exception of that read leaves the caller without object.
Call_SigQCAsciiTestCaseFile ==
    /\ dataobj = <<>>
    /\ \E i_filename \in BOOLEAN :
        \E self \in {IF i_filename THEN FileRead(NewFile(TRUE), testfile)
                     ELSE NewFile(FALSE)} :
            /\ dataobj' = IF self.raised = "" THEN self ELSE <<>>
            /\ OnFile("__init__", [raised |-> self.raised])

Call_setFilename ==
    /\ dataobj # <<>>
    /\ ~dataobj.filename
    /\ dataobj' = [dataobj EXCEPT !.filename = TRUE]
    /\ OnFile("setFilename", <<>>)

\* read(); open(None) raises TypeError.
Call_read ==
    /\ dataobj # <<>>
    /\ dataobj.reads < MaxReads
    /\ dataobj' = IF dataobj.filename THEN FileRead(dataobj, testfile)
                  ELSE [dataobj EXCEPT !.dataread = TRUE, !.raised = "TypeError"]
    /\ OnFile("read", [raised |-> dataobj'.raised])

Call_getTestCaseCount ==
    /\ dataobj # <<>>
    /\ OnFile("getTestCaseCount", getTestCaseCount(dataobj))
    /\ UNCHANGED dataobj

Call_getAllTestCases ==
    /\ dataobj # <<>>
    /\ \E elementwise \in BOOLEAN :
        OnFile("getAllTestCases", getAllTestCases(dataobj, elementwise))
    /\ UNCHANGED dataobj

CaseFileInit ==
    /\ testfile \in TestCaseFiles
    /\ dataobj = <<>>
    /\ fn = "export"
    /\ args = <<>>
    /\ ret = <<>>
    /\ casedata = <<>>
    /\ cov_args = <<>>
    /\ cov_matrix = <<>>
    /\ e_vals = <<>>
    /\ e_vects = <<>>
    /\ reffile = <<>>
    /\ csvfile = <<>>
    /\ arrays = <<>>
    /\ identifiers = <<>>

CaseFileNext ==
    \/ Call_SigQCAsciiTestCaseFile
    \/ Call_setFilename
    \/ Call_read
    \/ Call_getTestCaseCount
    \/ Call_getAllTestCases

CaseFileSpec == CaseFileInit /\ [][CaseFileNext]_vars

\* ---- properties of the test case file

\* The rows of the file that hold a marker.
MarkerRows(marker) == {k \in 1..Len(testfile) : InList(marker, testfile[k])}

\* The file was read once and every section of it became an entry.
ReadWhole ==
    /\ dataobj # <<>>
    /\ dataobj.reads = 1
    /\ dataobj.raised = ""
    /\ Len(dataobj.headerlist) = Cardinality(MarkerRows("BEGINHEADER"))
    /\ Len(dataobj.casedata) = Cardinality(MarkerRows("BEGINDATA"))
    /\ Len(dataobj.limits) = Cardinality(MarkerRows("BEGINLIMITS"))

\* C27: a read of the file ends without exception and gives one header for
\* every BEGINHEADER row, one matrix for every BEGINDATA row and one limits
\* entry for every BEGINLIMITS row, also when a BEGIN row follows ENDDATA
\* directly and when ENDDATA is the last row.
C27_OneEntryPerMarker ==
    /\ fn = "__init__" => ret.raised = ""
    /\ (dataobj # <<>> /\ dataobj.reads = 1) => ReadWhole

\* C29: however often read() was called, the object holds what it held after
\* the first read.
C29_ReadIsIdempotent ==
    (dataobj # <<>> /\ dataobj.reads >= 1 /\ dataobj.raised = "") =>
        \A first \in {FileRead(NewFile(TRUE), testfile)} :
            /\ getTestCaseCount(dataobj) = getTestCaseCount(first)
            /\ dataobj.headerlist = first.headerlist
            /\ dataobj.limits = first.limits

\* C23: on a file of one or more test cases that was read whole,
\* getAllTestCases returns a serial number for every row and a domain name
\* for every column of the data matrix.
C23_OnePerRowAndColumn ==
    (fn = "getAllTestCases" /\ ReadWhole /\ dataobj.casedata # <<>>) =>
        /\ ret.err = ""
        /\ Len(ret.serialnumbers) = Len(ret.allcasedata)
        /\ Len(ret.alldomainnames) = Len(ret.allcasedata[1])

====
